---- MODULE Spec2Model ----
(***************************************************************************)
(* Model of the post-build audit scripts of the static site generator:     *)
(*   find_orphaned_pages.py, suggest_orphan_links.py,                      *)
(*   find_internal_link_opportunities.py and link_checker.py.              *)
(*                                                                         *)
(* A path is a sequence of segments, an href is the record urlparse would  *)
(* produce from it, a page is what BeautifulSoup delivers for the file.    *)
(***************************************************************************)
EXTENDS Integers, Sequences, FiniteSets, TLC

VARIABLES site, fo, so, lo, lc, cli, sm, md

vars == <<site, fo, so, lo, lc, cli, sm, md>>

(***************************************************************************)
(* Bounds                                                                  *)
(***************************************************************************)
\* total number of link-carrying tags in the whole site
MaxAnchors == 2

(***************************************************************************)
(* The file system under and around the site root                          *)
(***************************************************************************)
\* os.path.abspath(output_dir_path)
SiteRootAbs == <<"srv", "site">>

\* the *.html files of the generated site, relative to the root
HtmlRel == { <<"a.html">>, <<"docs", "index.html">>, <<"index.html">> }

\* HtmlRel in ascending string order ("a.html" < "docs/index.html" < "index.html")
PathsAscending == << <<"a.html">>, <<"docs", "index.html">>, <<"index.html">> >>

\* regular files that are not pages
OtherFilesRel == { <<"f.pdf">> }

\* a directory of the site without index.html
EmptyDirsRel == { <<"empty">> }

\* files outside the site root; the name of one sibling directory starts with the root's name
OutsideFilesAbs == { <<"srv", "site2", "x.html">>, <<"srv", "other", "y.html">> }

\* pairs <<s, p>> of distinct segment names where string s starts with string p
SegPrefixPairs == { <<"site2", "site">> }

\* segment names ending in ".html"
HtmlNames == { "a.html", "index.html", "x.html", "y.html" }

FilesAbs == { SiteRootAbs \o p : p \in HtmlRel \cup OtherFilesRel } \cup OutsideFilesAbs

Prefixes(p) == { SubSeq(p, 1, n) : n \in 0..(Len(p) - 1) }

DirsAbs == UNION { Prefixes(f) : f \in FilesAbs } \cup { SiteRootAbs \o d : d \in EmptyDirsRel }

isfile(p) == p \in FilesAbs

isdir(p) == p \in DirsAbs

(***************************************************************************)
(* Path functions                                                          *)
(***************************************************************************)
\* urllib.parse.unquote on one segment
unquote(s) ==
    CASE s = "my%20page.html" -> "my page.html"
      [] s = "a%2Ehtml"       -> "a.html"
      [] OTHER                -> s

RECURSIVE NormSegs(_, _, _)
\* os.path.normpath: drops "." and empty segments, resolves ".." against the
\* segments before it; above the root of an absolute path ".." is dropped,
\* at the start of a relative path it is kept
NormSegs(segs, acc, isAbs) ==
    IF segs = <<>> THEN acc
    ELSE LET s == Head(segs) IN
         IF s = "." \/ s = "" THEN NormSegs(Tail(segs), acc, isAbs)
         ELSE IF s = ".."
              THEN IF acc # <<>> /\ acc[Len(acc)] # ".."
                   THEN NormSegs(Tail(segs), SubSeq(acc, 1, Len(acc) - 1), isAbs)
                   ELSE IF isAbs THEN NormSegs(Tail(segs), acc, isAbs)
                        ELSE NormSegs(Tail(segs), Append(acc, ".."), isAbs)
              ELSE NormSegs(Tail(segs), Append(acc, s), isAbs)

\* os.path.normpath on an absolute path
normpath_abs(p) == NormSegs(p, <<>>, TRUE)

\* normalize_path on an absolute path
normalize_path_abs(p) == normpath_abs([i \in 1..Len(p) |-> unquote(p[i])])

\* normalize_path on a relative path; normpath of an empty result is "."
normalize_path_rel(p) ==
    LET n == NormSegs([i \in 1..Len(p) |-> unquote(p[i])], <<>>, FALSE)
    IN  IF n = <<>> THEN <<".">> ELSE n

\* os.path.dirname
dirname(p) == IF p = <<>> THEN <<>> ELSE SubSeq(p, 1, Len(p) - 1)

\* os.path.basename
basename(p) == IF p = <<>> THEN "" ELSE p[Len(p)]

RECURSIVE CommonLen(_, _)
CommonLen(p, q) ==
    IF p = <<>> \/ q = <<>> \/ Head(p) # Head(q) THEN 0
    ELSE 1 + CommonLen(Tail(p), Tail(q))

\* os.path.relpath(p, start) for two normalized absolute paths
relpath(p, start) ==
    LET c   == CommonLen(p, start)
        ups == [i \in 1..(Len(start) - c) |-> ".."]
        r   == ups \o SubSeq(p, c + 1, Len(p))
    IN  IF r = <<>> THEN <<".">> ELSE r

\* str.startswith on one segment
SegStartsWith(s, p) == s = p \/ <<s, p>> \in SegPrefixPairs

\* str.startswith on the strings "/a/b/c" and "/x/y" of two absolute paths
PathStartsWith(p, root) ==
    /\ Len(p) >= Len(root)
    /\ \A i \in 1..(Len(root) - 1) : p[i] = root[i]
    /\ root = <<>> \/ SegStartsWith(p[Len(root)], root[Len(root)])

\* str.endswith('.html') on a path
EndsWithHtml(p) == p # <<>> /\ p[Len(p)] \in HtmlNames

(***************************************************************************)
(* Hrefs: the result of urlparse on the attribute value                    *)
(***************************************************************************)
Href(scheme, netloc, isAbs, segs, frag) ==
    [scheme |-> scheme, netloc |-> netloc, abs |-> isAbs, segs |-> segs, frag |-> frag]

hA        == Href("", "", FALSE, <<"a.html">>, "")
hAbsIndex == Href("", "", TRUE, <<"index.html">>, "")
hDocs     == Href("", "", FALSE, <<"docs", "">>, "")
hUpA      == Href("", "", FALSE, <<"..", "a.html">>, "")
hEmptyDir == Href("", "", FALSE, <<"empty">>, "")
hMissing  == Href("", "", FALSE, <<"nope.html">>, "")
hPdf      == Href("", "", TRUE, <<"f.pdf">>, "")
hFragTop  == Href("", "", FALSE, <<>>, "top")
hBlank    == Href("", "", FALSE, <<>>, "")
hMailto   == Href("mailto", "", FALSE, <<"x@ex.org">>, "")
hExt1     == Href("https", "ex.org", TRUE, <<"one">>, "")
hExt2     == Href("https", "ex.net", TRUE, <<"two">>, "")
hBadIPv6  == Href("http", "[", FALSE, <<>>, "")
hTel      == Href("tel", "", FALSE, <<"+5511">>, "")
hData     == Href("data", "", FALSE, <<"image", "png;base64,AAAA">>, "")
hJavascript == Href("javascript", "", FALSE, <<"void(0)">>, "")
\* the string 'N/A' in the href field of a synthetic entry
hNA       == Href("", "", FALSE, <<"N", "A">>, "")

\* urlparse raises ValueError on an unbalanced bracket in the host
UrlparseRaises(h) == h.netloc = "["

\* href_value.startswith('#')
StartsWithHash(h) == h.scheme = "" /\ h.netloc = "" /\ h.segs = <<>> /\ h.frag # ""

\* not href_value.strip()
IsBlank(h) == h.scheme = "" /\ h.netloc = "" /\ h.segs = <<>> /\ h.frag = ""

\* href_value.startswith(('mailto:', 'tel:', 'javascript:'))
NonNavPrefix(h) == h.scheme \in {"mailto", "tel", "javascript"}

NoTarget == [raised |-> FALSE, found |-> FALSE, path |-> <<>>]

Target(p) == [raised |-> FALSE, found |-> TRUE, path |-> p]

Raised == [raised |-> TRUE, found |-> FALSE, path |-> <<>>]

\* the absolute path an internal href points to, normalized
TargetAbsPath(h, sourceRel) ==
    IF h.abs
    THEN normalize_path_abs(SiteRootAbs \o h.segs)
    ELSE normalize_path_abs(dirname(SiteRootAbs \o sourceRel) \o h.segs)

\* a resolver that leaves a link to a directory at the directory
resolve_internal_link_target_FO_KeepsDirectory(h, sourceRel) ==
    IF UrlparseRaises(h) THEN Raised
    ELSE IF h.scheme # "" \/ h.netloc # "" \/ NonNavPrefix(h) \/ StartsWithHash(h) \/ IsBlank(h)
    THEN NoTarget
    ELSE LET n0 == TargetAbsPath(h, sourceRel)
         IN  IF ~PathStartsWith(n0, normalize_path_abs(SiteRootAbs))
             THEN NoTarget
             ELSE Target(normalize_path_rel(relpath(n0, SiteRootAbs)))

\* resolve_internal_link_target of find_orphaned_pages.py
resolve_internal_link_target_FO(h, sourceRel) ==
    IF UrlparseRaises(h) THEN Raised
    ELSE IF h.scheme # "" \/ h.netloc # "" \/ NonNavPrefix(h) \/ StartsWithHash(h) \/ IsBlank(h)
    THEN NoTarget
    ELSE LET n0 == TargetAbsPath(h, sourceRel)
             wi == normalize_path_abs(Append(n0, "index.html"))
             n1 == IF isdir(n0) /\ isfile(wi) THEN wi ELSE n0
         IN  IF ~PathStartsWith(n1, normalize_path_abs(SiteRootAbs))
             THEN NoTarget
             ELSE Target(normalize_path_rel(relpath(n1, SiteRootAbs)))

(***************************************************************************)
(* Pages                                                                   *)
(***************************************************************************)
\* a tag with its href or src attribute; rel is the rel attribute of a <link>
Tag(name, h) == [tag |-> name, href |-> h, rel |-> ""]

LinkTag(h, rel) == [tag |-> "link", href |-> h, rel |-> rel]

\* what the parser delivers for one file: the <title> string as words (has
\* tells a present, possibly blank, title from a missing or empty one), the
\* comma-separated entries of <meta name="keywords">, the words of the text
\* elements, the id and <a name> values, and the link-carrying tags in
\* document order
Page(readable, title, keywords, text, ids, tags) ==
    [readable |-> readable, title |-> title, keywords |-> keywords, text |-> text,
     ids |-> ids, tags |-> tags]

NoTitle == [has |-> FALSE, words |-> <<>>]

Title(words) == [has |-> TRUE, words |-> words]

\* a file whose open, read or parse raises
UnreadablePage == Page(FALSE, NoTitle, {}, <<>>, {}, <<>>)

\* a page with tags only
LinkPage(tags) == Page(TRUE, NoTitle, {}, <<>>, {}, tags)

\* all sequences of length n over S
SeqsOfLen(S, n) == [1..n -> S]

RECURSIVE SitesOver(_, _, _)
\* all sites over the pages ps where the pages carry at most budget tags of
\* the pool in total; a page that cannot be read or parsed delivers no tag
SitesOver(ps, pool, budget) ==
    IF ps = {} THEN { <<>> }
    ELSE LET p     == CHOOSE x \in ps : TRUE
             rests == [n \in 0..budget |-> SitesOver(ps \ {p}, pool, budget - n)]
         IN  UNION { { (p :> pg) @@ rest : rest \in rests[Len(pg.tags)] }
                     : pg \in {UnreadablePage} \cup
                              { LinkPage(t) : t \in UNION { SeqsOfLen(pool, n) : n \in 0..budget } } }

\* glob.glob(<root>/**/*.html, recursive=True), as normalized relative paths
GlobHtml == { normalize_path_rel(p) : p \in HtmlRel }

\* position of a path in ascending order
Rank(p) == CHOOSE i \in 1..Len(PathsAscending) : PathsAscending[i] = p

RECURSIVE SortedList(_)
\* sorted(list(S)) for a set of page paths
SortedList(S) ==
    IF S = {} THEN <<>>
    ELSE LET m == CHOOSE x \in S : \A y \in S : Rank(x) <= Rank(y)
         IN  <<m>> \o SortedList(S \ {m})

\* the elements of a sequence
Range(s) == { s[i] : i \in 1..Len(s) }

(***************************************************************************)
(* find_orphaned_pages.py                                                  *)
(***************************************************************************)
RECURSIVE LinkedByTagsFO(_, _, _)
\* the loop over soup.find_all('a', href=True) of one file: the targets added
\* to internally_linked_html_files; an exception ends the loop
LinkedByTagsFO(tags, sourceRel, allFiles) ==
    IF tags = <<>> THEN {}
    ELSE LET t == Head(tags)
             r == resolve_internal_link_target_FO(t.href, sourceRel)
         IN  IF t.tag # "a" THEN LinkedByTagsFO(Tail(tags), sourceRel, allFiles)
             ELSE IF r.raised THEN {}
             ELSE (IF r.found /\ r.path \in allFiles THEN {r.path} ELSE {})
                  \cup LinkedByTagsFO(Tail(tags), sourceRel, allFiles)

\* first loop of find_orphaned_pages_in_site and the early return
FO_Discover ==
    /\ fo.pc = "start"
    /\ fo' = IF GlobHtml = {}
             THEN [fo EXCEPT !.pc = "done", !.result = <<>>]
             ELSE [fo EXCEPT !.pc = "scan", !.all = GlobHtml, !.todo = GlobHtml]
    /\ UNCHANGED <<sm, md, cli, site, so, lo, lc>>

\* one iteration of the second loop, on the next file glob yields
FO_ProcessFile ==
    /\ fo.pc = "scan"
    /\ \E f \in fo.todo :
         fo' = [fo EXCEPT !.todo = @ \ {f},
                          !.linked = @ \cup (IF site[f].readable
                                             THEN LinkedByTagsFO(site[f].tags, f, fo.all)
                                             ELSE {})]
    /\ UNCHANGED <<sm, md, cli, site, so, lo, lc>>

\* the set difference and the sorted return
FO_Return ==
    /\ fo.pc = "scan"
    /\ fo.todo = {}
    /\ fo' = [fo EXCEPT !.pc = "done", !.result = SortedList(fo.all \ fo.linked)]
    /\ UNCHANGED <<sm, md, cli, site, so, lo, lc>>

(***************************************************************************)
(* Words, titles and texts                                                 *)
(***************************************************************************)
\* str.lower on one word
Lower(w) ==
    CASE w = "Eletronica" -> "eletronica"
      [] w = "Potencia"   -> "potencia"
      [] w = "De"         -> "de"
      [] OTHER            -> w

\* the words of the vocabulary shorter than three letters
ShortWords == { "de", "De", "a" }

\* len(w) > 2, the {3,} of the word patterns
AtLeast3(w) == w \notin ShortWords

\* PORTUGUESE_STOPWORDS, the members that occur in the vocabulary
PORTUGUESE_STOPWORDS == { "de", "para", "a" }

\* the words of os.path.basename(relative_path) as the word patterns split it
BasenameWords(name) ==
    CASE name = "index.html" -> <<"index", "html">>
      [] name = "a.html"     -> <<"a", "html">>
      [] OTHER               -> <<name>>

\* title, keywords and text of a page, before any tag is added
Content(title, keywords, text) == [title |-> title, keywords |-> keywords, text |-> text]

TextPool ==
    { Content(Title(<<"De">>), {}, <<>>),
      Content(Title(<<"Eletronica", "de", "Potencia">>), {}, <<"potencia">>),
      Content(Title(<<"De">>), {"Potencia"}, <<"Eletronica", "de", "Potencia">>),
      Content(NoTitle, {}, <<"potencia", "para">>) }

\* the sites whose pages carry at most budget tags of the pool in total and
\* a content of TextPool each
SitesWithText(pool, budget) ==
    { [p \in HtmlRel |->
         IF ls[p].readable
         THEN Page(TRUE, tx[p].title, tx[p].keywords, tx[p].text, {}, ls[p].tags)
         ELSE UnreadablePage] :
      ls \in SitesOver(HtmlRel, pool, budget), tx \in [HtmlRel -> TextPool] }

\* all orders in which a set can be enumerated
Perms(S) == { q \in [1..Cardinality(S) -> S] : \A i, j \in 1..Cardinality(S) : i # j => q[i] # q[j] }

\* the elements of seq for which keep holds, in order
RECURSIVE InsertDesc_BeforeEqual(_, _)
\* an insertion that puts x in front of the elements with the same count, as
\* a sort that is not stable may
InsertDesc_BeforeEqual(sorted, x) ==
    IF sorted = <<>> THEN <<x>>
    ELSE IF Head(sorted).matching_terms_count > x.matching_terms_count
         THEN <<Head(sorted)>> \o InsertDesc_BeforeEqual(Tail(sorted), x)
         ELSE <<x>> \o sorted

RECURSIVE InsertDesc(_, _)
\* inserts x behind the last element whose matching_terms_count is not smaller
InsertDesc(sorted, x) ==
    IF sorted = <<>> THEN <<x>>
    ELSE IF Head(sorted).matching_terms_count >= x.matching_terms_count
         THEN <<Head(sorted)>> \o InsertDesc(Tail(sorted), x)
         ELSE <<x>> \o sorted

\* a sort call that leaves the list in scan order
SortByCountDesc_Unsorted(l) == l

RECURSIVE SortByCountDesc(_)
\* list.sort(key=matching_terms_count, reverse=True): a stable sort
SortByCountDesc(l) ==
    IF l = <<>> THEN <<>>
    ELSE InsertDesc(SortByCountDesc(SubSeq(l, 1, Len(l) - 1)), l[Len(l)])

(***************************************************************************)
(* suggest_orphan_links.py                                                 *)
(***************************************************************************)
\* resolve_internal_link_target of suggest_orphan_links.py
resolve_internal_link_target_SO(h, sourceRel) ==
    IF UrlparseRaises(h) THEN Raised
    ELSE IF h.scheme # "" \/ h.netloc # "" \/ NonNavPrefix(h) \/ StartsWithHash(h) \/ IsBlank(h)
    THEN NoTarget
    ELSE LET n0 == TargetAbsPath(h, sourceRel)
             wi == normalize_path_abs(Append(n0, "index.html"))
             n1 == IF isdir(n0) /\ isfile(wi) THEN wi ELSE n0
         IN  IF ~PathStartsWith(n1, normalize_path_abs(SiteRootAbs))
             THEN NoTarget
             ELSE Target(normalize_path_rel(relpath(n1, SiteRootAbs)))

RECURSIVE LinkedByTagsSO(_, _, _)
\* the loop over soup.find_all('a', href=True) of one file: the targets added
\* to internally_linked_html_files, and whether an exception ended the loop
LinkedByTagsSO(tags, sourceRel, allFiles) ==
    IF tags = <<>> THEN [raised |-> FALSE, targets |-> {}]
    ELSE LET t == Head(tags)
             r == resolve_internal_link_target_SO(t.href, sourceRel)
             rest == LinkedByTagsSO(Tail(tags), sourceRel, allFiles)
         IN  IF t.tag # "a" THEN rest
             ELSE IF r.raised THEN [raised |-> TRUE, targets |-> {}]
             ELSE [rest EXCEPT !.targets = @ \cup (IF r.found /\ r.path \in allFiles THEN {r.path} ELSE {})]

\* the page_data entry of the except branch
SOEmptyData == [title |-> <<>>, keywords |-> {}, text_content |-> <<>>]

\* the page_data entry of a parsed page
SOPageData(pg) ==
    [title        |-> pg.title.words,
     keywords     |-> { Lower(k) : k \in pg.keywords },
     text_content |-> [i \in 1..Len(pg.text) |-> Lower(pg.text[i])]]

\* one iteration of the loop of get_all_html_files_and_links, on the next file glob yields
SO_LoadFile ==
    /\ so.pc = "load"
    /\ \E f \in so.todo :
         LET all1 == so.all \cup {f}
             lk   == LinkedByTagsSO(site[f].tags, f, all1)
             ok   == site[f].readable /\ ~lk.raised
         IN  so' = [so EXCEPT !.todo = @ \ {f},
                              !.all = all1,
                              !.linked = @ \cup (IF site[f].readable THEN lk.targets ELSE {}),
                              !.page_data = (f :> (IF ok THEN SOPageData(site[f]) ELSE SOEmptyData)) @@ @]
    /\ UNCHANGED <<sm, md, cli, site, fo, lo, lc>>

\* the set difference and the return of get_all_html_files_and_links
SO_Return ==
    /\ so.pc = "load"
    /\ so.todo = {}
    /\ so' = [so EXCEPT !.pc = "loaded", !.orphans = SortedList(so.all \ so.linked)]
    /\ UNCHANGED <<sm, md, cli, site, fo, lo, lc>>

\* orphan_title_words | orphan_keywords
SOSearchTerms(info) ==
    { Lower(w) : w \in { x \in Range(info.title) : AtLeast3(x) } } \cup info.keywords

\* found_terms_count of one source
SOFoundCount(terms, info) ==
    Cardinality({ t \in terms : AtLeast3(t) /\ t \in Range(info.text_content) })

RECURSIVE SOCandidates(_, _, _)
\* the inner loop over non_orphan_pages, in the order the set is enumerated
SOCandidates(order, terms, page_data) ==
    IF order = <<>> THEN <<>>
    ELSE LET src == Head(order)
             n   == SOFoundCount(terms, page_data[src])
         IN  (IF src \in DOMAIN page_data /\ n > 0
              THEN << [link_from_page |-> src, matching_terms_count |-> n,
                       source_page_title |-> page_data[src].title] >>
              ELSE <<>>)
             \o SOCandidates(Tail(order), terms, page_data)

\* suggest_linking_opportunities
suggest_linking_opportunities(orphans, page_data, order) ==
    LET keys == { o \in Range(orphans) : o \in DOMAIN page_data /\ SOSearchTerms(page_data[o]) # {} }
    IN  [o \in keys |-> SortByCountDesc(SOCandidates(order, SOSearchTerms(page_data[o]), page_data))]

\* the main block after the load: the suggestions are computed when there are orphans
SO_Report ==
    /\ so.pc = "loaded"
    /\ \E order \in Perms(so.all \ Range(so.orphans)) :
         so' = [so EXCEPT !.pc = "done",
                          !.suggestions = IF so.orphans = <<>> THEN <<>>
                                          ELSE suggest_linking_opportunities(so.orphans, so.page_data, order)]
    /\ UNCHANGED <<sm, md, cli, site, fo, lo, lc>>

(***************************************************************************)
(* find_internal_link_opportunities.py                                     *)
(***************************************************************************)
\* resolve_internal_link_target of find_internal_link_opportunities.py
resolve_internal_link_target_LO(h, sourceRel) ==
    IF UrlparseRaises(h) THEN Raised
    ELSE IF h.scheme # "" \/ h.netloc # "" \/ NonNavPrefix(h) \/ StartsWithHash(h) \/ IsBlank(h)
    THEN NoTarget
    ELSE LET n0 == TargetAbsPath(h, sourceRel)
             wi == normalize_path_abs(Append(n0, "index.html"))
             n1 == IF isdir(n0) THEN wi ELSE n0
         IN  IF isdir(n0) /\ ~isfile(wi) THEN NoTarget
             ELSE IF ~isfile(n1) \/ ~EndsWithHtml(n1) THEN NoTarget
             ELSE IF ~PathStartsWith(n1, normalize_path_abs(SiteRootAbs)) THEN NoTarget
             ELSE Target(normalize_path_rel(relpath(n1, SiteRootAbs)))

RECURSIVE LinkedByTagsLO_NoMembership(_, _, _)
\* LinkedByTagsLO without the test 'resolved_target in all_html_files'
LinkedByTagsLO_NoMembership(tags, sourceRel, allFiles) ==
    IF tags = <<>> THEN {}
    ELSE LET t == Head(tags)
             r == resolve_internal_link_target_LO(t.href, sourceRel)
         IN  IF t.tag # "a" THEN LinkedByTagsLO_NoMembership(Tail(tags), sourceRel, allFiles)
             ELSE IF r.raised THEN {}
             ELSE (IF r.found THEN {r.path} ELSE {})
                  \cup LinkedByTagsLO_NoMembership(Tail(tags), sourceRel, allFiles)

RECURSIVE LinkedByTagsLO(_, _, _)
\* the loop over soup.find_all('a', href=True) of one file in the second
\* pass: the targets added to outgoing_link_map[file]; an exception ends the loop
LinkedByTagsLO(tags, sourceRel, allFiles) ==
    IF tags = <<>> THEN {}
    ELSE LET t == Head(tags)
             r == resolve_internal_link_target_LO(t.href, sourceRel)
         IN  IF t.tag # "a" THEN LinkedByTagsLO(Tail(tags), sourceRel, allFiles)
             ELSE IF r.raised THEN {}
             ELSE (IF r.found /\ r.path \in allFiles THEN {r.path} ELSE {})
                  \cup LinkedByTagsLO(Tail(tags), sourceRel, allFiles)

\* the words the pattern [a-z...-]{3,} finds in a lowercased text
WordsOf3(text) == SelectSeq([i \in 1..Len(text) |-> Lower(text[i])], AtLeast3)

NotStopword(w) == w \notin PORTUGUESE_STOPWORDS

\* the page_data entry of the except branch of the first pass
LOEmptyData(f) ==
    [title |-> BasenameWords(basename(f)), keywords_set |-> {},
     text_content_for_matching |-> <<>>, raw_text_content_for_snippet |-> <<>>]

\* the page_data entry of a parsed page
LOPageData(f, pg) ==
    [title        |-> IF pg.title.has THEN pg.title.words ELSE BasenameWords(basename(f)),
     keywords_set |-> { Lower(k) : k \in { x \in pg.keywords : AtLeast3(x) /\ Lower(x) \notin PORTUGUESE_STOPWORDS } },
     text_content_for_matching    |-> SelectSeq(WordsOf3(pg.text), NotStopword),
     raw_text_content_for_snippet |-> [i \in 1..Len(pg.text) |-> Lower(pg.text[i])]]

\* a first pass that leaves out the file on which reading or parsing raises
LO_CollectFile_SkipsFailed ==
    /\ lo.pc = "collect"
    /\ \E f \in GlobHtml \ Range(lo.files) :
         lo' = [lo EXCEPT !.files = Append(@, f),
                          !.all = @ \cup {f},
                          !.page_data = IF site[f].readable THEN (f :> LOPageData(f, site[f])) @@ @ ELSE @,
                          !.outgoing = (f :> {}) @@ @]
    /\ UNCHANGED <<sm, md, cli, site, fo, so, lc>>

\* first pass of get_site_data_and_link_map, one iteration, on the next file glob yields
LO_CollectFile ==
    /\ lo.pc = "collect"
    /\ \E f \in GlobHtml \ Range(lo.files) :
         lo' = [lo EXCEPT !.files = Append(@, f),
                          !.all = @ \cup {f},
                          !.page_data = (f :> (IF site[f].readable THEN LOPageData(f, site[f])
                                                                  ELSE LOEmptyData(f))) @@ @,
                          !.outgoing = (f :> {}) @@ @]
    /\ UNCHANGED <<sm, md, cli, site, fo, so, lc>>

\* the end of the first pass
LO_StartLinks ==
    /\ lo.pc = "collect"
    /\ Range(lo.files) = GlobHtml
    /\ lo' = [lo EXCEPT !.pc = "links", !.next = 1]
    /\ UNCHANGED <<sm, md, cli, site, fo, so, lc>>

\* second pass of get_site_data_and_link_map, one iteration, files in the order of the first pass
LO_LinkFile ==
    /\ lo.pc = "links"
    /\ lo.next <= Len(lo.files)
    /\ LET f == lo.files[lo.next] IN
         lo' = [lo EXCEPT !.next = @ + 1,
                          !.outgoing[f] = IF f \in DOMAIN lo.page_data /\ site[f].readable
                                          THEN @ \cup LinkedByTagsLO(site[f].tags, f, lo.all)
                                          ELSE @]
    /\ UNCHANGED <<sm, md, cli, site, fo, so, lc>>

\* the return of get_site_data_and_link_map
LO_Return ==
    /\ lo.pc = "links"
    /\ lo.next > Len(lo.files)
    /\ lo' = [lo EXCEPT !.pc = "built", !.sorted = SortedList(lo.all), !.files = <<>>, !.next = 0]
    /\ UNCHANGED <<sm, md, cli, site, fo, so, lc>>

\* topic terms taken from the keywords alone
LOTopicTerms_KeywordsOnly(info) == info.keywords_set

\* target_title_words | target_keywords
LOTopicTerms(info) ==
    { w \in Range(WordsOf3(info.title)) : w \notin PORTUGUESE_STOPWORDS } \cup info.keywords_set

\* found_matching_terms of one source
LOFoundTerms(terms, info) == { t \in terms : t \in Range(info.text_content_for_matching) }

\* context_snippet: the window of 60 characters to each side of the first
\* match in the snippet copy covers the whole of a text of a few words
LOSnippet(found, info) ==
    IF \E t \in found : t \in Range(info.raw_text_content_for_snippet)
    THEN info.raw_text_content_for_snippet
    ELSE <<>>

\* LOSkipSource without the test of outgoing_link_map
LOSkipSource_IgnoresGraph(src, target, page_data, outgoing) ==
    \/ src = target
    \/ src \notin DOMAIN page_data

\* whether the inner loop of suggest_internal_linking_opportunities skips a source
LOSkipSource(src, target, page_data, outgoing) ==
    \/ src = target
    \/ src \notin DOMAIN page_data
    \/ target \in (IF src \in DOMAIN outgoing THEN outgoing[src] ELSE {})

RECURSIVE LOCandidates(_, _, _, _)
\* the inner loop over all_html_files for one target
LOCandidates(sources, target, page_data, outgoing) ==
    IF sources = <<>> THEN <<>>
    ELSE LET src   == Head(sources)
             found == LOFoundTerms(LOTopicTerms(page_data[target]), page_data[src])
         IN  (IF ~LOSkipSource(src, target, page_data, outgoing) /\ found # {}
              THEN << [source_page |-> src, source_page_title |-> page_data[src].title,
                       matching_terms_count |-> Cardinality(found), matched_terms |-> found,
                       context_snippet |-> LOSnippet(found, page_data[src])] >>
              ELSE <<>>)
             \o LOCandidates(Tail(sources), target, page_data, outgoing)

\* suggest_internal_linking_opportunities
suggest_internal_linking_opportunities(all_html_files, page_data, outgoing) ==
    LET keys == { t \in Range(all_html_files) : t \in DOMAIN page_data /\ LOTopicTerms(page_data[t]) # {} }
    IN  [t \in keys |-> SortByCountDesc(LOCandidates(all_html_files, t, page_data, outgoing))]

\* the main block after get_site_data_and_link_map
LO_Suggest ==
    /\ lo.pc = "built"
    /\ lo' = [lo EXCEPT !.pc = "done",
                        !.opportunities = IF lo.sorted = <<>> THEN <<>>
                                          ELSE suggest_internal_linking_opportunities(lo.sorted, lo.page_data, lo.outgoing)]
    /\ UNCHANGED <<sm, md, cli, site, fo, so, lc>>

\*--LO--

(***************************************************************************)
(* link_checker.py                                                         *)
(***************************************************************************)
\* what one HTTP request does: it raises exc, or returns a response with the status
Response(status) == [exc |-> "", status |-> status]

Failure(exc) == [exc |-> exc, status |-> 0]

\* no request was made
NoRequest == [exc |-> "none", status |-> 0]

\* the HTTP status codes servers answer with
StatusPool == { 200, 400, 404 }

\* requests.exceptions.Timeout, TooManyRedirects, another RequestException, any other Exception
ExceptionPool == { "Timeout", "TooManyRedirects", "ConnectionError", "Exception" }

Outcomes == { Response(c) : c \in StatusPool } \cup { Failure(e) : e \in ExceptionPool }

\* the (ok, message) pair of a check; status is the status the message names,
\* head and get are the statuses of its method trail
Result(ok, kind, status, head, get) ==
    [ok |-> ok, kind |-> kind, status |-> status, head |-> head, get |-> get]

\* the except clause of RequestException placed before those of its subclasses
ExceptionResult_GenericFirst(exc) ==
    CASE exc \in {"Timeout", "TooManyRedirects", "ConnectionError"}
                -> [ok |-> FALSE, kind |-> "Erro de requisicao", status |-> 0, head |-> 0, get |-> 0]
      [] OTHER  -> [ok |-> FALSE, kind |-> "Erro inesperado ao verificar", status |-> 0, head |-> 0, get |-> 0]

\* the message of each except clause of _fetch_external_link
ExceptionResult(exc) ==
    CASE exc = "Timeout"          -> Result(FALSE, "Timeout (excedeu tempo limite)", 0, 0, 0)
      [] exc = "TooManyRedirects" -> Result(FALSE, "Muitos redirecionamentos", 0, 0, 0)
      [] exc = "ConnectionError"  -> Result(FALSE, "Erro de requisicao", 0, 0, 0)
      [] OTHER                    -> Result(FALSE, "Erro inesperado ao verificar", 0, 0, 0)

\* a GET fallback for statuses above 400 only
GetIssued_Above400(head) == head.exc = "" /\ head.status > 400

\* whether _fetch_external_link issues the GET request after this HEAD outcome
GetIssued(head) == head.exc = "" /\ head.status >= 400

\* the (status_ok, message) _fetch_external_link computes from the outcome of
\* the HEAD request and, when it is issued, of the GET request
FetchResult(head, get) ==
    IF head.exc # "" THEN ExceptionResult(head.exc)
    ELSE IF GetIssued(head)
         THEN IF get.exc # "" THEN ExceptionResult(get.exc)
              ELSE IF get.status < 400
                   THEN Result(TRUE, "OK", get.status, head.status, get.status)
                   ELSE Result(FALSE, "Erro HTTP", get.status, head.status, get.status)
         ELSE IF head.status < 400
              THEN Result(TRUE, "OK", head.status, head.status, 0)
              ELSE Result(FALSE, "Erro HTTP", head.status, head.status, 0)

\* cache[link_href] = (status_ok, message)
CachePut(cache, url, result) == (url :> result) @@ cache

\* the requests made for one URL during the current invocation
NoRequests == [heads |-> 0, gets |-> 0, head |-> NoRequest, get |-> NoRequest]

\* the log after one run of _fetch_external_link for the URL
LogFetch(log, url, head, get) ==
    LET old == IF url \in DOMAIN log THEN log[url] ELSE NoRequests
    IN  (url :> [heads |-> old.heads + 1,
                 gets  |-> old.gets + (IF GetIssued(head) THEN 1 ELSE 0),
                 head  |-> head,
                 get   |-> IF GetIssued(head) THEN get ELSE NoRequest]) @@ log

\* _resolve_internal_link_path: the target file of an internal href
resolve_internal_link_path(h, sourceRel) ==
    IF h.segs = <<>> THEN normpath_abs(SiteRootAbs \o sourceRel)
    ELSE IF h.abs THEN normpath_abs(SiteRootAbs \o h.segs)
    ELSE normpath_abs(dirname(SiteRootAbs \o sourceRel) \o h.segs)

\* the ids and <a name> values of a file; a file that is no page has none
IdsOfFile(p) ==
    IF \E f \in HtmlRel : SiteRootAbs \o f = p
    THEN site[CHOOSE f \in HtmlRel : SiteRootAbs \o f = p].ids
    ELSE {}

\* whether reading and parsing a file raises
FileRaises(p) ==
    /\ \E f \in HtmlRel : SiteRootAbs \o f = p
    /\ ~site[CHOOSE f \in HtmlRel : SiteRootAbs \o f = p].readable

\* _check_internal_link_target without the search for the anchor
check_internal_link_target_IgnoresFragment(target, fragment) ==
    IF ~PathStartsWith(target, SiteRootAbs)
    THEN Result(FALSE, "Link interno aponta para fora do diretorio do site", 0, 0, 0)
    ELSE LET idx    == Append(target, "index.html")
             actual == IF isdir(target) /\ isfile(idx) THEN idx ELSE target
         IN  IF isdir(target) /\ ~isfile(idx)
             THEN Result(FALSE, "Link de diretorio nao possui index.html", 0, 0, 0)
             ELSE IF ~isfile(actual)
             THEN Result(FALSE, "Arquivo de destino nao encontrado", 0, 0, 0)
             ELSE Result(TRUE, "OK", 0, 0, 0)

\* _check_internal_link_target
check_internal_link_target(target, fragment) ==
    IF ~PathStartsWith(target, SiteRootAbs)
    THEN Result(FALSE, "Link interno aponta para fora do diretorio do site", 0, 0, 0)
    ELSE LET idx    == Append(target, "index.html")
             actual == IF isdir(target) /\ isfile(idx) THEN idx ELSE target
         IN  IF isdir(target) /\ ~isfile(idx)
             THEN Result(FALSE, "Link de diretorio nao possui index.html", 0, 0, 0)
             ELSE IF ~isfile(actual)
             THEN Result(FALSE, "Arquivo de destino nao encontrado", 0, 0, 0)
             ELSE IF fragment # "" /\ FileRaises(actual)
             THEN Result(FALSE, "Erro ao verificar ancora", 0, 0, 0)
             ELSE IF fragment # "" /\ fragment \notin IdsOfFile(actual)
             THEN Result(FALSE, "Ancora nao encontrada", 0, 0, 0)
             ELSE Result(TRUE, "OK", 0, 0, 0)

\* the first test of _check_one_link with the prefixes of the resolvers' list
SkippedHref_NoData(h) == IsBlank(h) \/ h.scheme \in {"mailto", "tel", "javascript"}

\* the first test of _check_one_link: empty, mailto:, tel:, data:, javascript:
SkippedHref(h) == IsBlank(h) \/ h.scheme \in {"mailto", "tel", "data", "javascript"}

\* parsed_url.scheme and parsed_url.netloc
IsExternal(h) == h.scheme # "" /\ h.netloc # ""

SkippedResult == Result(TRUE, "Skipped (tipo de link nao verificavel ou local)", 0, 0, 0)

SkippedExternalResult == Result(TRUE, "Skipped (verificacao de link externo desabilitada)", 0, 0, 0)

\* the internal branch of _check_one_link with the resolvers' policy for a
\* directory without index.html
CheckInternal_DropsDirectories(h, sourceRel) ==
    LET target == IF StartsWithHash(h) THEN SiteRootAbs \o sourceRel
                  ELSE resolve_internal_link_path(h, sourceRel)
    IN  IF isdir(target) /\ ~isfile(Append(target, "index.html"))
        THEN Result(TRUE, "OK", 0, 0, 0)
        ELSE check_internal_link_target(target, h.frag)

\* the internal branch of _check_one_link
CheckInternal(h, sourceRel) ==
    IF StartsWithHash(h)
    THEN check_internal_link_target(SiteRootAbs \o sourceRel, h.frag)
    ELSE check_internal_link_target(resolve_internal_link_path(h, sourceRel), h.frag)

\* _check_one_link without the cache lookup
NeedsFetch_IgnoresCache(h, check_external, cache) ==
    /\ ~SkippedHref(h)
    /\ ~UrlparseRaises(h)
    /\ IsExternal(h)
    /\ check_external

\* whether _check_one_link goes to the network for the href
NeedsFetch(h, check_external, cache) ==
    /\ ~SkippedHref(h)
    /\ ~UrlparseRaises(h)
    /\ IsExternal(h)
    /\ check_external
    /\ h \notin DOMAIN cache

\* a check that takes a URL found in the cache as good, whatever was stored
CheckWithoutFetch_ForgetsVerdict(h, sourceRel, check_external, cache) ==
    IF SkippedHref(h) THEN SkippedResult
    ELSE IF IsExternal(h)
         THEN IF ~check_external THEN SkippedExternalResult ELSE Result(TRUE, "OK", 0, 0, 0)
         ELSE CheckInternal(h, sourceRel)

\* the value _check_one_link returns without a request
CheckWithoutFetch(h, sourceRel, check_external, cache) ==
    IF SkippedHref(h) THEN SkippedResult
    ELSE IF IsExternal(h)
         THEN IF ~check_external THEN SkippedExternalResult ELSE cache[h]
         ELSE CheckInternal(h, sourceRel)

\* the rel values for which a <link> is checked
CheckedRels == { "stylesheet", "icon", "shortcut icon", "apple-touch-icon", "manifest" }

TagOrder == <<"a", "link", "img", "script">>

\* whether the loops of _extract_and_check_links_from_file check the tag
TagIsChecked(t) == t.tag # "link" \/ t.rel \in CheckedRels

RECURSIVE TagsToCheck(_, _)
\* the tags in the order of the loops: by tag name, then in document order
TagsToCheck(tags, k) ==
    IF k > Len(TagOrder) THEN <<>>
    ELSE LET IsKth(t) == t.tag = TagOrder[k] /\ TagIsChecked(t)
         IN  SelectSeq(tags, IsKth) \o TagsToCheck(tags, k + 1)

\* an entry of the list of broken links
Issue(source, t, result) == [source |-> source, tag |-> t.tag, href |-> t.href, status |-> result]

\* the entry made when a file cannot be read or parsed, or a link check raises
FileErrorIssue(source) ==
    [source |-> source, tag |-> "N/A", href |-> hNA,
     status |-> Result(FALSE, "Erro critico de leitura/parse", 0, 0, 0)]

NoFile == <<>>

\* check_website_links without the clear() of the cache
LCEnter_KeepsCache(check_external) ==
    [lc EXCEPT !.pc = IF GlobHtml = {} THEN "returned" ELSE "run",
               !.check_external = check_external,
               !.log = <<>>,
               !.todo = GlobHtml,
               !.cur = NoFile,
               !.links = <<>>,
               !.broken = <<>>,
               !.all_broken = <<>>]

\* check_website_links up to its loop: the cache is cleared, the list of
\* broken links is new and the files are listed; no request has been made yet
LCEnter(check_external) ==
    [lc EXCEPT !.pc = IF GlobHtml = {} THEN "returned" ELSE "run",
               !.check_external = check_external,
               !.cache = <<>>,
               !.log = <<>>,
               !.todo = GlobHtml,
               !.cur = NoFile,
               !.links = <<>>,
               !.broken = <<>>,
               !.all_broken = <<>>]

\* the first call of check_website_links in the process
LC_Call ==
    /\ lc.pc = "idle"
    /\ \E check_external \in BOOLEAN : lc' = LCEnter(check_external)
    /\ UNCHANGED <<sm, md, cli, site, fo, so, lo>>

\* a further call of check_website_links, after the earlier one has returned
LC_CallAgain ==
    /\ lc.pc = "returned"
    /\ \E check_external \in BOOLEAN : lc' = [LCEnter(check_external) EXCEPT !.again = TRUE]
    /\ UNCHANGED <<sm, md, cli, site, fo, so, lo>>

\* a file that cannot be read ends the loop over the files
LC_OpenFile_AbortsRun ==
    /\ lc.pc = "run"
    /\ lc.cur = NoFile
    /\ \E f \in lc.todo :
         lc' = IF site[f].readable
               THEN [lc EXCEPT !.todo = @ \ {f}, !.cur = f,
                               !.links = TagsToCheck(site[f].tags, 1), !.broken = <<>>]
               ELSE [lc EXCEPT !.todo = {},
                               !.all_broken = Append(@, FileErrorIssue(f))]
    /\ UNCHANGED <<sm, md, cli, site, fo, so, lo>>

\* the next file glob yields is opened and parsed; a file that cannot be read
\* gives its one entry at once
LC_OpenFile ==
    /\ lc.pc = "run"
    /\ lc.cur = NoFile
    /\ \E f \in lc.todo :
         lc' = IF site[f].readable
               THEN [lc EXCEPT !.todo = @ \ {f}, !.cur = f,
                               !.links = TagsToCheck(site[f].tags, 1), !.broken = <<>>]
               ELSE [lc EXCEPT !.todo = @ \ {f},
                               !.all_broken = Append(@, FileErrorIssue(f))]
    /\ UNCHANGED <<sm, md, cli, site, fo, so, lo>>

\* one iteration of the loops over the tags of the current file: _check_one_link
\* with, for an external URL that is not in the cache, _fetch_external_link
LC_CheckLink ==
    /\ lc.pc = "run"
    /\ lc.cur # NoFile
    /\ lc.links # <<>>
    /\ LET t == Head(lc.links)
           h == t.href
       IN  IF ~SkippedHref(h) /\ UrlparseRaises(h)
           THEN lc' = [lc EXCEPT !.cur = NoFile, !.links = <<>>, !.broken = <<>>,
                                 !.all_broken = Append(@, FileErrorIssue(lc.cur))]
           ELSE IF NeedsFetch(h, lc.check_external, lc.cache)
           THEN \E head \in Outcomes : \E get \in (IF GetIssued(head) THEN Outcomes ELSE {NoRequest}) :
                  LET r == FetchResult(head, get)
                  IN  lc' = [lc EXCEPT !.links = Tail(@),
                                       !.cache = CachePut(@, h, r),
                                       !.log = LogFetch(@, h, head, get),
                                       !.broken = IF r.ok THEN @ ELSE Append(@, Issue(lc.cur, t, r))]
           ELSE LET r == CheckWithoutFetch(h, lc.cur, lc.check_external, lc.cache)
                IN  lc' = [lc EXCEPT !.links = Tail(@),
                                     !.broken = IF r.ok THEN @ ELSE Append(@, Issue(lc.cur, t, r))]
    /\ UNCHANGED <<sm, md, cli, site, fo, so, lo>>

\* a loop that takes the file it has finished once more
LC_CloseFile_Revisits ==
    /\ lc.pc = "run"
    /\ lc.cur # NoFile
    /\ lc.links = <<>>
    /\ lc' = [lc EXCEPT !.cur = NoFile, !.broken = <<>>, !.all_broken = @ \o lc.broken,
                        !.todo = IF lc.broken # <<>> THEN @ \cup {lc.cur} ELSE @]
    /\ UNCHANGED <<sm, md, cli, site, fo, so, lo>>

\* _extract_and_check_links_from_file returns and its list is appended
LC_CloseFile ==
    /\ lc.pc = "run"
    /\ lc.cur # NoFile
    /\ lc.links = <<>>
    /\ lc' = [lc EXCEPT !.cur = NoFile, !.broken = <<>>, !.all_broken = @ \o lc.broken]
    /\ UNCHANGED <<sm, md, cli, site, fo, so, lo>>

\* the loop of check_website_links ends and the list is returned
LC_Return ==
    /\ lc.pc = "run"
    /\ lc.cur = NoFile
    /\ lc.todo = {}
    /\ lc' = [lc EXCEPT !.pc = "returned"]
    /\ UNCHANGED <<sm, md, cli, site, fo, so, lo>>

\*--LC--

(***************************************************************************)
(* Specifications, one per script                                          *)
(***************************************************************************)
FOIdle == [pc |-> "idle", all |-> {}, linked |-> {}, todo |-> {}, result |-> <<>>]

FOStart == [FOIdle EXCEPT !.pc = "start"]

SOIdle == [pc |-> "idle", all |-> {}, linked |-> {}, page_data |-> <<>>, todo |-> {},
           orphans |-> <<>>, suggestions |-> <<>>]

SOStart == [SOIdle EXCEPT !.pc = "load", !.todo = GlobHtml]

LOIdle == [pc |-> "idle", files |-> <<>>, next |-> 0, all |-> {}, page_data |-> <<>>,
           outgoing |-> <<>>, sorted |-> <<>>, opportunities |-> <<>>]

LOStart == [LOIdle EXCEPT !.pc = "collect"]

LCIdle == [pc |-> "idle", again |-> FALSE, check_external |-> TRUE, cache |-> <<>>, log |-> <<>>,
           todo |-> {}, cur |-> NoFile, links |-> <<>>, broken |-> <<>>, all_broken |-> <<>>]

\* no command line has been started
CLIIdle == [pc |-> "idle", script |-> "", arg |-> "", issues |-> FALSE, printed |-> "", status |-> -1]

\* sitemap.py has not been run
SMIdle == [pc |-> "idle", tree |-> {}, todo |-> {}, entries |-> <<>>]

\* audit_all_metadata has not been called
MDIdle == [pc |-> "idle", pages |-> <<>>, todo |-> {}, audited |-> <<>>, escaped |-> FALSE,
           all_issues_by_file |-> <<>>]

\*--IDLE--

AnchorPoolFO == { Tag("a", h) : h \in {hA, hAbsIndex, hDocs, hUpA, hEmptyDir, hFragTop, hExt1, hMailto} }

InitFO ==
    /\ site \in SitesOver(HtmlRel, AnchorPoolFO, MaxAnchors)
    /\ fo = FOStart
    /\ so = SOIdle
    /\ lo = LOIdle
    /\ lc = LCIdle
    /\ cli = CLIIdle
    /\ sm = SMIdle
    /\ md = MDIdle

NextFO == FO_Discover \/ FO_ProcessFile \/ FO_Return

SpecFO == InitFO /\ [][NextFO]_vars

\* hrefs to each page of the site, and one external href
hAbsA    == Href("", "", TRUE, <<"a.html">>, "")
hAbsDocs == Href("", "", TRUE, <<"docs", "">>, "")

PageLinkPool == { Tag("a", h) : h \in {hAbsA, hAbsIndex, hAbsDocs} }

InitSO ==
    /\ site \in SitesWithText(PageLinkPool, MaxAnchors)
    /\ so = SOStart
    /\ fo = FOIdle
    /\ lo = LOIdle
    /\ lc = LCIdle
    /\ cli = CLIIdle
    /\ sm = SMIdle
    /\ md = MDIdle

NextSO == SO_LoadFile \/ SO_Return \/ SO_Report

SpecSO == InitSO /\ [][NextSO]_vars

hOutside == Href("", "", FALSE, <<"..", "site2", "x.html">>, "")

AnchorPoolLO ==
    { Tag("a", h) : h \in {hA, hAbsIndex, hDocs, hEmptyDir, hPdf, hOutside,
                           hFragTop, hExt1, hBadIPv6} }

InitLO ==
    /\ site \in SitesOver(HtmlRel, AnchorPoolLO, MaxAnchors)
    /\ lo = LOStart
    /\ fo = FOIdle
    /\ so = SOIdle
    /\ lc = LCIdle
    /\ cli = CLIIdle
    /\ sm = SMIdle
    /\ md = MDIdle

NextLO == LO_CollectFile \/ LO_StartLinks \/ LO_LinkFile \/ LO_Return \/ LO_Suggest

SpecLO == InitLO /\ [][NextLO]_vars

\* the orphan variant is run on the site after the opportunity finder
SO_Start ==
    /\ lo.pc = "done"
    /\ so.pc = "idle"
    /\ so' = SOStart
    /\ UNCHANGED <<sm, md, cli, site, fo, lo, lc>>

InitSuggest ==
    /\ site \in SitesWithText(PageLinkPool, MaxAnchors)
    /\ lo = LOStart
    /\ so = SOIdle
    /\ fo = FOIdle
    /\ lc = LCIdle
    /\ cli = CLIIdle
    /\ sm = SMIdle
    /\ md = MDIdle

NextSuggest == NextLO \/ SO_Start \/ NextSO

SpecSuggest == InitSuggest /\ [][NextSuggest]_vars

TagPoolLC ==
    { Tag("a", hExt1), Tag("img", hExt1), Tag("a", hExt2), Tag("a", hMissing) }

InitLC ==
    /\ site \in SitesOver(HtmlRel, TagPoolLC, MaxAnchors)
    /\ lc = LCIdle
    /\ fo = FOIdle
    /\ so = SOIdle
    /\ lo = LOIdle
    /\ cli = CLIIdle
    /\ sm = SMIdle
    /\ md = MDIdle

NextLC == LC_Call \/ LC_OpenFile \/ LC_CheckLink \/ LC_CloseFile \/ LC_Return

SpecLC == InitLC /\ [][NextLC]_vars

ExternalTagPool == { Tag("a", hExt1), Tag("a", hExt2) }

InitLCCalls ==
    /\ site \in SitesOver(HtmlRel, ExternalTagPool, MaxAnchors)
    /\ lc = LCIdle
    /\ fo = FOIdle
    /\ so = SOIdle
    /\ lo = LOIdle
    /\ cli = CLIIdle
    /\ sm = SMIdle
    /\ md = MDIdle

NextLCCalls == NextLC \/ LC_CallAgain

\* check_website_links called any number of times in one process
SpecLCCalls == InitLCCalls /\ [][NextLCCalls]_vars

\* hrefs that are not checked, and one external URL
SkipTagPool ==
    { Tag("a", h) : h \in {hBlank, hMailto, hTel, hJavascript, hExt1} } \cup { Tag("img", hData) }

InitLCSkip ==
    /\ site \in SitesOver(HtmlRel, SkipTagPool, MaxAnchors)
    /\ lc = LCIdle
    /\ fo = FOIdle
    /\ so = SOIdle
    /\ lo = LOIdle
    /\ cli = CLIIdle
    /\ sm = SMIdle
    /\ md = MDIdle

\* one call of check_website_links on a site with links that are skipped
SpecLCSkip == InitLCSkip /\ [][NextLC]_vars

hATop       == Href("", "", FALSE, <<"a.html">>, "top")
hAbsDocsTop == Href("", "", TRUE, <<"docs", "">>, "top")
hOther      == Href("", "", FALSE, <<"..", "other", "y.html">>, "")

\* internal links: to a file, to a directory with and without index.html, to
\* a missing file, to an anchor, to a file outside the root
InternalTagPool ==
    { Tag("a", h) : h \in {hA, hATop, hAbsDocsTop, hFragTop, hMissing, hEmptyDir, hOther} }

\* the sites over a pool where each readable page has the anchor "top" or not
SitesWithIds(pool, budget) ==
    { [p \in HtmlRel |-> IF s[p].readable THEN [s[p] EXCEPT !.ids = ids[p]] ELSE s[p]]
        : s \in SitesOver(HtmlRel, pool, budget), ids \in [HtmlRel -> {{}, {"top"}}] }

InitLCInternal ==
    /\ site \in SitesWithIds(InternalTagPool, MaxAnchors)
    /\ lc = LCIdle
    /\ fo = FOIdle
    /\ so = SOIdle
    /\ lo = LOIdle
    /\ cli = CLIIdle
    /\ sm = SMIdle
    /\ md = MDIdle

\* one call of check_website_links on a site with internal links
SpecLCInternal == InitLCInternal /\ [][NextLC]_vars

\* a scheme-relative URL: a host and no scheme
hSchemeRel == Href("", "ex.org", TRUE, <<"x">>, "")

AuditTagPool ==
    { Tag("a", h) : h \in {hA, hDocs, hEmptyDir, hOutside, hOther, hExt1, hMailto, hSchemeRel} }

\* the opportunity finder is run after the orphan finder
LO_Start ==
    /\ fo.pc = "done"
    /\ lo.pc = "idle"
    /\ lo' = LOStart
    /\ UNCHANGED <<sm, md, cli, site, fo, so, lc>>

\* the link checker is run after the other scripts, with --skip-external
LC_CallAfterAudit ==
    /\ so.pc = "done"
    /\ lc.pc = "idle"
    /\ lc' = LCEnter(FALSE)
    /\ UNCHANGED <<sm, md, cli, site, fo, so, lo>>

InitAudit ==
    /\ site \in SitesOver(HtmlRel, AuditTagPool, MaxAnchors)
    /\ fo = FOStart
    /\ lo = LOIdle
    /\ so = SOIdle
    /\ lc = LCIdle
    /\ cli = CLIIdle
    /\ sm = SMIdle
    /\ md = MDIdle

NextAudit ==
    \/ NextFO
    \/ LO_Start
    \/ NextLO
    \/ SO_Start
    \/ NextSO
    \/ LC_CallAfterAudit
    \/ LC_OpenFile
    \/ LC_CheckLink
    \/ LC_CloseFile
    \/ LC_Return

\* the four scripts run one after the other on the same site
SpecAudit == InitAudit /\ [][NextAudit]_vars

\* links to a page and to a missing file, and an href on which urlparse raises
ErrorTagPool == { Tag("a", hA), Tag("a", hMissing), Tag("img", hMissing), Tag("a", hBadIPv6) }

InitLCErrors ==
    /\ site \in SitesOver(HtmlRel, ErrorTagPool, MaxAnchors)
    /\ lc = LCIdle
    /\ fo = FOIdle
    /\ so = SOIdle
    /\ lo = LOIdle
    /\ cli = CLIIdle
    /\ sm = SMIdle
    /\ md = MDIdle

\* one call of check_website_links on a site with files and links that raise
SpecLCErrors == InitLCErrors /\ [][NextLC]_vars

\* the page a.html with its dot percent-encoded
hEncodedA == Href("", "", FALSE, <<"a%2Ehtml">>, "")

\* links to a page, plain and percent-encoded, and to a missing file
EncodedTagPool == { Tag("a", hA), Tag("a", hEncodedA), Tag("a", hMissing) }

InitLCEncoded ==
    /\ site \in SitesOver(HtmlRel, EncodedTagPool, MaxAnchors)
    /\ lc = LCIdle
    /\ fo = FOIdle
    /\ so = SOIdle
    /\ lo = LOIdle
    /\ cli = CLIIdle
    /\ sm = SMIdle
    /\ md = MDIdle

\* one call of check_website_links on a site with percent-encoded links
SpecLCEncoded == InitLCEncoded /\ [][NextLC]_vars

\* links to an external URL, to a missing file, and an href on which urlparse raises
FairTagPool == { Tag("a", hExt1), Tag("a", hMissing), Tag("a", hBadIPv6) }

InitLCFair ==
    /\ site \in SitesOver(HtmlRel, FairTagPool, MaxAnchors)
    /\ lc = LCIdle
    /\ fo = FOIdle
    /\ so = SOIdle
    /\ lo = LOIdle
    /\ cli = CLIIdle
    /\ sm = SMIdle
    /\ md = MDIdle

\* one call of check_website_links; the script is one sequential process, so
\* a step that can be taken is taken, and every request has a timeout
\* (requests.head with timeout=10, requests.get with timeout=15), so the step
\* of a link that goes to the network ends with a response or a failure
SpecLCFair == InitLCFair /\ [][NextLC]_vars /\ WF_vars(NextLC)

(***************************************************************************)
(* The command lines of the audit scripts                                  *)
(***************************************************************************)
Scripts ==
    { "link_checker", "find_orphaned_pages", "suggest_orphan_links",
      "find_internal_link_opportunities", "metadata_checker", "spell_checker" }

\* the path argument: left out, a path that does not exist, a file, a file
\* named *_content.html, a directory
Args == { "missing", "nonexistent", "file", "content_file", "directory" }

\* parser.parse_args(): argparse prints the usage and exits with status 2
\* when the positional argument is missing
CLI_ParseArgs ==
    /\ cli.pc = "start"
    /\ cli' = IF cli.arg = "missing"
              THEN [cli EXCEPT !.pc = "exited", !.printed = "usage", !.status = 2]
              ELSE [cli EXCEPT !.pc = "parsed"]
    /\ UNCHANGED <<sm, md, site, fo, so, lo, lc>>

\* the test of the path argument in main() of spell_checker.py: a file that is
\* no content file and a path that is neither file nor directory print an
\* error and return
CLI_CheckPathSpell ==
    /\ cli.pc = "parsed"
    /\ cli.script = "spell_checker"
    /\ cli' = IF cli.arg \in {"content_file", "directory"}
              THEN [cli EXCEPT !.pc = "running"]
              ELSE [cli EXCEPT !.pc = "exited", !.printed = "error", !.status = 0]
    /\ UNCHANGED <<sm, md, site, fo, so, lo, lc>>

\* 'if not os.path.isdir(args.directory): print(...); exit(1)' of the other
\* scripts, and the call of the audit function on the directory
CLI_CheckDirectory ==
    /\ cli.pc = "parsed"
    /\ cli.script # "spell_checker"
    /\ IF cli.arg # "directory"
       THEN /\ cli' = [cli EXCEPT !.pc = "exited", !.printed = "error", !.status = 1]
            /\ UNCHANGED <<sm, md, site, fo, so, lo, lc>>
       ELSE /\ cli' = [cli EXCEPT !.pc = "running"]
            /\ fo' = IF cli.script = "find_orphaned_pages" THEN FOStart ELSE fo
            /\ so' = IF cli.script = "suggest_orphan_links" THEN SOStart ELSE so
            /\ lo' = IF cli.script = "find_internal_link_opportunities" THEN LOStart ELSE lo
            /\ IF cli.script = "link_checker"
               THEN \E skip_external \in BOOLEAN : lc' = LCEnter(~skip_external)
               ELSE lc' = lc
            /\ UNCHANGED <<sm, md, site>>

\* the audit function has returned
RunFinished ==
    CASE cli.script = "find_orphaned_pages"              -> fo.pc = "done"
      [] cli.script = "suggest_orphan_links"             -> so.pc = "done"
      [] cli.script = "find_internal_link_opportunities" -> lo.pc = "done"
      [] cli.script = "link_checker"                     -> lc.pc = "returned"
      [] OTHER                                           -> TRUE

\* whether the audit of the modelled scripts found something to report
IssuesFound ==
    CASE cli.script = "find_orphaned_pages"              -> fo.result # <<>>
      [] cli.script = "suggest_orphan_links"             -> so.orphans # <<>>
      [] cli.script = "find_internal_link_opportunities" -> lo.opportunities # <<>>
      [] cli.script = "link_checker"                     -> lc.all_broken # <<>>
      [] OTHER                                           -> FALSE

\* the report is printed and the script ends; the metadata checker and the
\* spell checker find issues or not
CLI_Report ==
    /\ cli.pc = "running"
    /\ RunFinished
    /\ \E found \in (IF cli.script \in {"metadata_checker", "spell_checker"} THEN BOOLEAN ELSE {IssuesFound}) :
         cli' = [cli EXCEPT !.pc = "exited", !.printed = "report", !.issues = found, !.status = 0]
    /\ UNCHANGED <<sm, md, site, fo, so, lo, lc>>

CLITagPool == { Tag("a", h) : h \in {hA, hAbsIndex, hMissing} }

InitCLI ==
    /\ site \in SitesOver(HtmlRel, CLITagPool, MaxAnchors)
    /\ cli \in { [CLIIdle EXCEPT !.pc = "start", !.script = s, !.arg = a] : s \in Scripts, a \in Args }
    /\ fo = FOIdle
    /\ so = SOIdle
    /\ lo = LOIdle
    /\ lc = LCIdle
    /\ sm = SMIdle
    /\ md = MDIdle

NextCLI ==
    \/ CLI_ParseArgs
    \/ CLI_CheckPathSpell
    \/ CLI_CheckDirectory
    \/ CLI_Report
    \/ NextFO
    \/ NextSO
    \/ NextLO
    \/ LC_OpenFile
    \/ LC_CheckLink
    \/ LC_CloseFile
    \/ LC_Return

\* one run of one script from the command line
SpecCLI == InitCLI /\ [][NextCLI]_vars


(***************************************************************************)
(* sitemap.py                                                              *)
(***************************************************************************)
public_dir == "public_html"

\* the files os.walk(public_dir) may find, as the path segments of
\* os.path.join(root, file): the home page, a page, a page whose name ends in
\* index.html, the index of a directory, the index of a directory that has
\* the name of public_dir, and a file that is no page
SitemapTree ==
    { <<"public_html", "index.html">>, <<"public_html", "a.html">>,
      <<"public_html", "myindex.html">>, <<"public_html", "docs", "index.html">>,
      <<"public_html", "public_html", "index.html">>, <<"public_html", "notes.txt">> }

\* file.endswith(".html") on the names of the tree
IsHtmlName(name) == name \in {"index.html", "a.html", "myindex.html"}

\* s.endswith("index.html") on the names of the tree
EndsWithIndexHtml(name) == name \in {"index.html", "myindex.html"}

\* name.replace("index.html", "") on the names of the tree
WithoutIndexHtml(name) ==
    CASE name = "index.html"   -> ""
      [] name = "myindex.html" -> "my"
      [] OTHER                 -> name

\* filepath.replace(public_dir + "/", ""): str.replace removes every
\* occurrence, so every directory segment equal to public_dir goes
RECURSIVE WithoutPublicDir(_)
WithoutPublicDir(p) ==
    IF Len(p) <= 1 THEN p
    ELSE IF Head(p) = public_dir THEN WithoutPublicDir(Tail(p))
    ELSE <<Head(p)>> \o WithoutPublicDir(Tail(p))

\* url.rstrip("/") on base_url + "/" + segments joined by "/": an empty last
\* segment is a trailing slash
RECURSIVE RStripSlash(_)
RStripSlash(u) ==
    IF u # <<>> /\ u[Len(u)] = "" THEN RStripSlash(SubSeq(u, 1, Len(u) - 1)) ELSE u

\* format_url: the URL as the sequence of the segments after base_url, <<>>
\* being base_url itself
format_url(filepath) ==
    LET relative == WithoutPublicDir(filepath)
        url == IF EndsWithIndexHtml(relative[Len(relative)])
               THEN [i \in 1..Len(relative) |-> WithoutIndexHtml(relative[i])]
               ELSE relative
    IN  RStripSlash(url)

\* the script starts: os.walk(public_dir) over the tree
SM_Walk ==
    /\ sm.pc = "start"
    /\ sm' = [sm EXCEPT !.pc = "walking", !.todo = sm.tree]
    /\ UNCHANGED <<md, cli, site, fo, so, lo, lc>>

\* one file of the walk, in the order of the file system: a .html file
\* appends its <url> entry
SM_File ==
    /\ sm.pc = "walking"
    /\ \E full_path \in sm.todo :
         LET url == format_url(full_path)
             priority == IF url = <<>> THEN "1.0" ELSE "0.8"
             entry == [file |-> full_path, loc |-> url, priority |-> priority]
         IN  sm' = [sm EXCEPT !.todo = sm.todo \ {full_path},
                              !.entries = IF IsHtmlName(full_path[Len(full_path)])
                                          THEN Append(sm.entries, entry) ELSE sm.entries]
    /\ UNCHANGED <<md, cli, site, fo, so, lo, lc>>

\* the walk is over: sitemap.xml is written with the entries
SM_Write ==
    /\ sm.pc = "walking"
    /\ sm.todo = {}
    /\ sm' = [sm EXCEPT !.pc = "written"]
    /\ UNCHANGED <<md, cli, site, fo, so, lo, lc>>

InitSitemap ==
    /\ site \in SitesOver(HtmlRel, {}, 0)
    /\ sm \in { [SMIdle EXCEPT !.pc = "start", !.tree = t] : t \in SUBSET SitemapTree }
    /\ md = MDIdle
    /\ cli = CLIIdle
    /\ fo = FOIdle
    /\ so = SOIdle
    /\ lo = LOIdle
    /\ lc = LCIdle

NextSitemap == SM_Walk \/ SM_File \/ SM_Write

\* one run of sitemap.py on any tree of these files
SpecSitemap == InitSitemap /\ [][NextSitemap]_vars


(***************************************************************************)
(* metadata_checker.py                                                     *)
(***************************************************************************)
EXPECTED_AUTHOR == "Mauro Sandro dos Reis"
EXPECTED_OG_TYPE == "website"
EXPECTED_TWITTER_CARD == "summary_large_image"
MIN_TITLE_LENGTH == 5
MIN_DESCRIPTION_LENGTH == 20
MIN_KEYWORDS_COUNT == 1
DEFAULT_BASE_DESCRIPTION == "Site pessoal de Mauro Sandro dos Reis, pesquisador ..."

\* the texts found in the pages
tPagina == "Pagina boa"
tOutra == "Outra pagina"
tOi == "Oi"
tDescricao == "Uma descricao longa o bastante"
tKeywords == "potencia, controle"
tCommas == " , "

\* the URLs found in the pages: a page of the site, the profile image
\* (EXPECTED_SITE_DOMAIN + DEFAULT_PROFILE_IMAGE_PATH), an image of the site
\* that is no local file, an image of another host, a relative URL, and a URL
\* on which urlparse raises ValueError
uPage == "https://mauroreis.app/a.html"
uProfileImage == "https://mauroreis.app/assets/img/foto-perfil-mauroreis.webp"
uNoImage == "https://mauroreis.app/assets/img/none.webp"
uCdnImage == "https://cdn.example/img.webp"
uRelative == "/a.html"
uInvalid == "http://[mauroreis.app/a.html"

\* len(content.strip())
StrippedLen(c) ==
    CASE c = tPagina   -> 10
      [] c = tOutra    -> 12
      [] c = tOi       -> 2
      [] c = tDescricao -> 30
      [] c = DEFAULT_BASE_DESCRIPTION -> 108
      [] c = tKeywords -> 18
      [] c = tCommas   -> 1
      [] c = EXPECTED_AUTHOR -> 21
      [] c = EXPECTED_OG_TYPE -> 7
      [] c = EXPECTED_TWITTER_CARD -> 19
      [] c = ""        -> 0
      [] OTHER         -> 28

\* len([k.strip() for k in content.split(',') if k.strip()])
KeywordsCount(c) ==
    CASE c = tKeywords -> 2
      [] c \in {tCommas, ""} -> 0
      [] OTHER -> 1

\* what urlparse and the file system say about a URL
UrlRaises(u) == u = uInvalid
UrlAbsolute(u) == u \in {uPage, uProfileImage, uNoImage, uCdnImage}
UrlStartsWithDomain(u) == u \in {uPage, uProfileImage, uNoImage}
UrlNetlocIsDomain(u) == u \in {uPage, uProfileImage, uNoImage}
UrlLocalFileExists(u) == u \in {uPage, uProfileImage}

\* a tag of a page: absent, present without the attribute (content, href, or
\* the string of <title>), or present with it
NoTag == [tag |-> FALSE, has |-> FALSE, content |-> ""]
BareTag == [tag |-> TRUE, has |-> FALSE, content |-> ""]
MetaTag(c) == [tag |-> TRUE, has |-> TRUE, content |-> c]

\* Python's None as the value of a content variable, and the truth of one
None == "<None>"
Truthy(c) == c \notin {None, ""}

\* _validate_url
_validate_url(url_string, context_msg, base_domain_required, path_must_exist_locally_root) ==
    IF url_string = "" THEN << <<context_msg, "URL vazia">> >>
    ELSE IF UrlRaises(url_string) THEN << <<context_msg, "formato invalido">> >>
    ELSE (IF ~UrlAbsolute(url_string) THEN << <<context_msg, "nao absoluta">> >> ELSE <<>>)
         \o (IF /\ base_domain_required
                /\ ~UrlStartsWithDomain(url_string)
                /\ \/ context_msg \notin {"Open Graph Image URL", "Twitter Image URL"}
                   \/ UrlNetlocIsDomain(url_string)
             THEN << <<context_msg, "fora do dominio">> >> ELSE <<>>)
         \o (IF /\ path_must_exist_locally_root
                /\ UrlAbsolute(url_string)
                /\ ~UrlLocalFileExists(url_string)
             THEN << <<context_msg, "arquivo local nao encontrado">> >> ELSE <<>>)

\* _check_meta_tag: the issues it appends and the content it returns
_check_meta_tag(tag, tag_description, expected_content_value, check_non_empty, min_length, is_url, url_context, local_file_root_for_url) ==
    IF ~tag.tag THEN [issues |-> << <<tag_description, "ausente">> >>, content |-> None]
    ELSE IF ~tag.has THEN [issues |-> << <<tag_description, "sem content">> >>, content |-> None]
    ELSE [issues |->
             (IF check_non_empty /\ (StrippedLen(tag.content) = 0 \/ StrippedLen(tag.content) < min_length)
              THEN << <<tag_description, "vazio ou curto">> >> ELSE <<>>)
             \o (IF expected_content_value # "" /\ tag.content # expected_content_value
                 THEN << <<tag_description, "valor inesperado">> >> ELSE <<>>)
             \o (IF is_url THEN _validate_url(tag.content, url_context, TRUE, local_file_root_for_url)
                 ELSE <<>>),
          content |-> tag.content]

\* the body of the try block of check_metadata_for_file on the parsed page m
\* of the file html_filepath (relative to the site root)
MetadataIssues(m, html_filepath) ==
    LET page_title_text == IF ~m.title.tag THEN None
                           ELSE IF m.title.has THEN m.title.content ELSE ""
        title_issues == IF ~m.title.tag THEN << <<"title", "ausente">> >>
                        ELSE IF page_title_text = "" \/ StrippedLen(page_title_text) < MIN_TITLE_LENGTH
                        THEN << <<"title", "vazio ou curto">> >> ELSE <<>>
        description == _check_meta_tag(m.description, "description", "", TRUE, MIN_DESCRIPTION_LENGTH, FALSE, "", FALSE)
        is_home_page == html_filepath = <<"index.html">>
        default_issues == IF /\ Truthy(description.content)
                             /\ description.content = DEFAULT_BASE_DESCRIPTION
                             /\ ~is_home_page
                          THEN << <<"description", "valor padrao">> >> ELSE <<>>
        author == _check_meta_tag(m.author, "author", EXPECTED_AUTHOR, TRUE, 1, FALSE, "", FALSE)
        keywords == _check_meta_tag(m.keywords, "keywords", "", TRUE, 1, FALSE, "", FALSE)
        keywords_issues == IF Truthy(keywords.content) /\ KeywordsCount(keywords.content) < MIN_KEYWORDS_COUNT
                           THEN << <<"keywords", "poucas">> >> ELSE <<>>
        canonical_href == IF m.canonical.tag /\ m.canonical.has /\ m.canonical.content # ""
                          THEN m.canonical.content ELSE None
        canonical_issues == IF ~m.canonical.tag THEN << <<"canonical", "ausente">> >>
                            ELSE IF canonical_href = None THEN << <<"canonical", "sem href">> >>
                            ELSE _validate_url(canonical_href, "Canonical URL", TRUE, FALSE)
        og_title == _check_meta_tag(m.og_title, "og:title", "", TRUE, 1, FALSE, "", FALSE)
        og_description == _check_meta_tag(m.og_description, "og:description", "", TRUE, MIN_DESCRIPTION_LENGTH, FALSE, "", FALSE)
        og_url == _check_meta_tag(m.og_url, "og:url", "", TRUE, 1, TRUE, "Open Graph URL", FALSE)
        og_image == _check_meta_tag(m.og_image, "og:image", "", TRUE, 1, TRUE, "Open Graph Image URL", TRUE)
        og_type == _check_meta_tag(m.og_type, "og:type", EXPECTED_OG_TYPE, TRUE, 1, FALSE, "", FALSE)
        twitter_card == _check_meta_tag(m.twitter_card, "twitter:card", EXPECTED_TWITTER_CARD, TRUE, 1, FALSE, "", FALSE)
        twitter_title == _check_meta_tag(m.twitter_title, "twitter:title", "", TRUE, 1, FALSE, "", FALSE)
        twitter_description == _check_meta_tag(m.twitter_description, "twitter:description", "", TRUE, MIN_DESCRIPTION_LENGTH, FALSE, "", FALSE)
        twitter_image == _check_meta_tag(m.twitter_image, "twitter:image", "", TRUE, 1, TRUE, "Twitter Image URL", TRUE)
        Differ(a, b, what) == IF Truthy(a) /\ Truthy(b) /\ a # b THEN << <<what, "diferem">> >> ELSE <<>>
    IN  title_issues \o description.issues \o default_issues \o author.issues
        \o keywords.issues \o keywords_issues \o canonical_issues
        \o og_title.issues \o og_description.issues \o og_url.issues \o og_image.issues
        \o og_type.issues \o twitter_card.issues \o twitter_title.issues
        \o twitter_description.issues \o twitter_image.issues
        \o Differ(page_title_text, og_title.content, "title e og:title")
        \o Differ(page_title_text, twitter_title.content, "title e twitter:title")
        \o Differ(description.content, og_description.content, "description e og:description")
        \o Differ(description.content, twitter_description.content, "description e twitter:description")
        \o Differ(og_image.content, twitter_image.content, "og:image e twitter:image")
        \o (IF og_image.content = uProfileImage /\ twitter_image.content # uProfileImage
            THEN << <<"imagem padrao", "diferem">> >> ELSE <<>>)
        \o Differ(canonical_href, og_url.content, "canonical e og:url")

\* check_metadata_for_file without its except clauses: the exception of
\* open() leaves the function
check_metadata_for_file_Unguarded(file, html_filepath) ==
    CASE file.kind \in {"missing", "unreadable"} -> [raised |-> TRUE, issues |-> <<>>]
      [] OTHER -> [raised |-> FALSE, issues |-> MetadataIssues(file.meta, html_filepath)]

\* check_metadata_for_file: what the call gives back, the returned list or an
\* exception that leaves the function; open() of a missing file raises
\* FileNotFoundError, open() or read() of an unreadable or undecodable file
\* another exception, and both except clauses turn it into one issue
check_metadata_for_file(file, html_filepath) ==
    CASE file.kind = "missing"    -> [raised |-> FALSE, issues |-> << <<"arquivo", "nao encontrado">> >>]
      [] file.kind = "unreadable" -> [raised |-> FALSE, issues |-> << <<"arquivo", "erro ao processar">> >>]
      [] OTHER                    -> [raised |-> FALSE, issues |-> MetadataIssues(file.meta, html_filepath)]

\* html_file_path.replace(site_root_abs_path, '').lstrip(os.sep), on the
\* segments of the absolute path: every occurrence of the root goes
RECURSIVE WithoutSiteRoot(_)
WithoutSiteRoot(p) ==
    IF Len(p) < Len(SiteRootAbs) THEN p
    ELSE IF SubSeq(p, 1, Len(SiteRootAbs)) = SiteRootAbs
         THEN WithoutSiteRoot(SubSeq(p, Len(SiteRootAbs) + 1, Len(p)))
         ELSE <<Head(p)>> \o WithoutSiteRoot(Tail(p))

\* the pages with complete metadata, without any, and with flawed metadata
CompleteMeta ==
    [title |-> MetaTag(tPagina), description |-> MetaTag(tDescricao), author |-> MetaTag(EXPECTED_AUTHOR),
     keywords |-> MetaTag(tKeywords), canonical |-> MetaTag(uPage),
     og_title |-> MetaTag(tPagina), og_description |-> MetaTag(tDescricao), og_url |-> MetaTag(uPage),
     og_image |-> MetaTag(uProfileImage), og_type |-> MetaTag(EXPECTED_OG_TYPE),
     twitter_card |-> MetaTag(EXPECTED_TWITTER_CARD), twitter_title |-> MetaTag(tPagina),
     twitter_description |-> MetaTag(tDescricao), twitter_image |-> MetaTag(uProfileImage)]

MetaPool ==
    { CompleteMeta,
      [f \in DOMAIN CompleteMeta |-> NoTag],
      [CompleteMeta EXCEPT !.title = MetaTag(tOi), !.og_title = MetaTag(tOutra), !.keywords = MetaTag(tCommas)],
      [CompleteMeta EXCEPT !.description = MetaTag(DEFAULT_BASE_DESCRIPTION),
                           !.og_description = MetaTag(DEFAULT_BASE_DESCRIPTION),
                           !.twitter_description = MetaTag(DEFAULT_BASE_DESCRIPTION)],
      [CompleteMeta EXCEPT !.title = BareTag, !.canonical = MetaTag(uInvalid), !.og_url = MetaTag(uRelative),
                           !.og_image = MetaTag(uCdnImage), !.twitter_image = BareTag,
                           !.author = MetaTag(tOi)],
      [CompleteMeta EXCEPT !.og_image = MetaTag(uNoImage), !.twitter_image = MetaTag(uNoImage),
                           !.canonical = BareTag] }

\* the files glob finds: a file that is gone when it is opened, a file that
\* cannot be read or decoded, a page
MDFilePool ==
    { [kind |-> "missing", meta |-> CompleteMeta], [kind |-> "unreadable", meta |-> CompleteMeta] }
    \cup { [kind |-> "html", meta |-> m] : m \in MetaPool }

\* audit_all_metadata up to the loop: glob lists the files; without files the
\* function returns the empty mapping
MD_Audit ==
    /\ md.pc = "start"
    /\ md' = IF DOMAIN md.pages = {}
             THEN [md EXCEPT !.pc = "returned"]
             ELSE [md EXCEPT !.pc = "loop", !.todo = DOMAIN md.pages]
    /\ UNCHANGED <<sm, cli, site, fo, so, lo, lc>>

\* one turn of the loop, the files in the order of glob: the file is checked
\* and entered under its relative path when the list is not empty; an
\* exception of the call would leave the loop and the function
MD_CheckFile ==
    /\ md.pc = "loop"
    /\ \E rel \in md.todo :
         LET html_file_path == SiteRootAbs \o rel
             relative_file_path == WithoutSiteRoot(html_file_path)
             checked == check_metadata_for_file(md.pages[rel], rel)
         IN  md' = IF checked.raised
                   THEN [md EXCEPT !.pc = "aborted", !.escaped = TRUE]
                   ELSE [md EXCEPT !.todo = md.todo \ {rel},
                                   !.audited = Append(md.audited, [file |-> rel, issues |-> checked.issues]),
                                   !.all_issues_by_file =
                                       IF checked.issues # <<>>
                                       THEN [k \in DOMAIN md.all_issues_by_file \cup {relative_file_path} |->
                                                IF k = relative_file_path THEN checked.issues
                                                ELSE md.all_issues_by_file[k]]
                                       ELSE md.all_issues_by_file]
    /\ UNCHANGED <<sm, cli, site, fo, so, lo, lc>>

\* the loop is over: the mapping is returned
MD_Return ==
    /\ md.pc = "loop"
    /\ md.todo = {}
    /\ md' = [md EXCEPT !.pc = "returned"]
    /\ UNCHANGED <<sm, cli, site, fo, so, lo, lc>>

InitMetadata ==
    /\ site \in SitesOver(HtmlRel, {}, 0)
    /\ \E files \in SUBSET HtmlRel :
         md \in { [MDIdle EXCEPT !.pc = "start", !.pages = ps] : ps \in [files -> MDFilePool] }
    /\ sm = SMIdle
    /\ cli = CLIIdle
    /\ fo = FOIdle
    /\ so = SOIdle
    /\ lo = LOIdle
    /\ lc = LCIdle

NextMetadata == MD_Audit \/ MD_CheckFile \/ MD_Return

\* one call of audit_all_metadata on any directory of these files
SpecMetadata == InitMetadata /\ [][NextMetadata]_vars

\*--SPECS--

(***************************************************************************)
(* Properties                                                              *)
(***************************************************************************)
\* page q contains an anchor whose href resolves to page d
HasAnchorTo(q, d) ==
    /\ site[q].readable
    /\ \E i \in 1..Len(site[q].tags) :
         /\ site[q].tags[i].tag = "a"
         /\ resolve_internal_link_target_FO(site[q].tags[i].href, q) = Target(d)

\* C1: when find_orphaned_pages_in_site has returned, a page is in the orphan
\* list exactly when no other page contains an anchor resolving to it
C1_OrphanIffNoLinkFromOtherPage ==
    fo.pc = "done" =>
        \A d \in HtmlRel :
            (d \in Range(fo.result)) <=> ~(\E q \in HtmlRel \ {d} : HasAnchorTo(q, d))

\* page q contains an anchor whose href resolves to page d (resolver of suggest_orphan_links.py)
HasAnchorToSO(q, d) ==
    /\ site[q].readable
    /\ \E i \in 1..Len(site[q].tags) :
         /\ site[q].tags[i].tag = "a"
         /\ resolve_internal_link_target_SO(site[q].tags[i].href, q) = Target(d)

\* C2: the orphan list of get_all_html_files_and_links is all pages minus the
\* targets of all internal anchor links, in whatever order the files are read
C2_OrphansAreAllMinusLinked ==
    so.pc \in {"loaded", "done"} =>
        Range(so.orphans) = { d \in HtmlRel : ~(\E q \in HtmlRel : HasAnchorToSO(q, d)) }

\* C3: in the link graph of get_site_data_and_link_map no page is a member of
\* its own outgoing set
C3_NoSelfLinkInGraph ==
    lo.pc \in {"built", "done"} => \A p \in DOMAIN lo.outgoing : p \notin lo.outgoing[p]

\* C4: the keys of the link graph are exactly the discovered HTML files, a
\* file that failed to parse has an empty outgoing set, and every member of
\* an outgoing set is a discovered HTML file
C4_GraphOverDiscoveredFiles ==
    lo.pc \in {"built", "done"} =>
        /\ DOMAIN lo.outgoing = GlobHtml
        /\ Range(lo.sorted) = GlobHtml
        /\ \A p \in DOMAIN lo.outgoing :
             /\ lo.outgoing[p] \subseteq GlobHtml
             /\ ~site[p].readable => lo.outgoing[p] = {}

\* a graph with an edge, built from a site with a file that failed to parse
\* and a page whose anchor points to an existing .html file that is no page of the site
C4_Witness ==
    /\ lo.pc = "built"
    /\ \E p \in HtmlRel : ~site[p].readable
    /\ \E p \in HtmlRel : lo.outgoing[p] # {}
    /\ \E p \in HtmlRel : \E i \in 1..Len(site[p].tags) :
         LET r == resolve_internal_link_target_LO(site[p].tags[i].href, p)
         IN  r.found /\ r.path \notin GlobHtml

\* C5: a source that links to the target in outgoing_link_map is never in the
\* target's suggestion list, and neither is the target itself
C5_NoSuggestionFromLinkingPage ==
    lo.pc = "done" =>
        \A t \in DOMAIN lo.opportunities : \A i \in 1..Len(lo.opportunities[t]) :
            LET s == lo.opportunities[t][i].source_page
            IN  s # t /\ t \notin lo.outgoing[s]

\* a target with suggestions, a page linking to it whose text matches all of
\* the target's topic terms, and a target whose own text matches its terms
C5_Witness ==
    /\ lo.pc = "done"
    /\ \E t \in DOMAIN lo.opportunities :
         /\ lo.opportunities[t] # <<>>
         /\ \E s \in HtmlRel \ {t} :
              /\ t \in lo.outgoing[s]
              /\ LOFoundTerms(LOTopicTerms(lo.page_data[t]), lo.page_data[s]) = LOTopicTerms(lo.page_data[t])
    /\ \E t \in DOMAIN lo.opportunities :
         LOFoundTerms(LOTopicTerms(lo.page_data[t]), lo.page_data[t]) # {}

\* a list of suggestions is ordered by matching_terms_count, non-increasing
CountsNonIncreasing(l) ==
    \A i, j \in 1..Len(l) : i < j => l[i].matching_terms_count >= l[j].matching_terms_count

\* C6: every suggestion list of suggest_internal_linking_opportunities and of
\* suggest_linking_opportunities is ordered by matching_terms_count, non-increasing
C6_SuggestionsRankedByCount ==
    /\ lo.pc = "done" => \A t \in DOMAIN lo.opportunities : CountsNonIncreasing(lo.opportunities[t])
    /\ so.pc = "done" => \A t \in DOMAIN so.suggestions : CountsNonIncreasing(so.suggestions[t])

\* both variants have ranked a source matching two terms above one matching
\* one term; in the opportunity finder the source with one term was scanned first
C6_Witness ==
    /\ so.pc = "done"
    /\ \E t \in DOMAIN so.suggestions :
         /\ Len(so.suggestions[t]) = 2
         /\ so.suggestions[t][1].matching_terms_count = 2
         /\ so.suggestions[t][2].matching_terms_count = 1
    /\ \E t \in DOMAIN lo.opportunities :
         /\ Len(lo.opportunities[t]) = 2
         /\ lo.opportunities[t][1].matching_terms_count = 2
         /\ lo.opportunities[t][2].matching_terms_count = 1
         /\ Rank(lo.opportunities[t][2].source_page) < Rank(lo.opportunities[t][1].source_page)

\* the entries for an href in the list being built and the list of the call
IssuesFor(h) ==
    { i \in 1..Len(lc.all_broken) : lc.all_broken[i].href = h } \cup
    { Len(lc.all_broken) + i : i \in { j \in 1..Len(lc.broken) : lc.broken[j].href = h } }

\* C7: within one invocation with external checking enabled, at most one HEAD
\* and at most one GET request is made for each external URL, whatever the
\* outcome of the first check, and the URL is in the cache once it was fetched
C7_EachUrlFetchedOnce ==
    \A url \in DOMAIN lc.log :
        /\ lc.log[url].heads <= 1
        /\ lc.log[url].gets <= 1
        /\ url \in DOMAIN lc.cache

\* a URL whose only HEAD request timed out is reported for two tags, in two documents
C7_Witness ==
    /\ lc.pc = "returned"
    /\ lc.check_external
    /\ \E url \in DOMAIN lc.log :
         /\ lc.log[url].heads = 1
         /\ lc.log[url].head.exc = "Timeout"
         /\ \E i, j \in 1..Len(lc.all_broken) :
              /\ lc.all_broken[i].href = url
              /\ lc.all_broken[j].href = url
              /\ lc.all_broken[i].source # lc.all_broken[j].source

\* C8: the cache holds only results of requests made during the current call
\* of check_website_links, so it is empty when the loop of a call starts, and
\* every entry reported for an external URL is the result of such a request
C8_CacheScopedToCall ==
    /\ \A url \in DOMAIN lc.cache :
         /\ url \in DOMAIN lc.log
         /\ lc.log[url].heads >= 1
         /\ lc.cache[url] = FetchResult(lc.log[url].head, lc.log[url].get)
    /\ (lc.pc = "run" /\ lc.todo = GlobHtml /\ lc.cur = NoFile) => lc.cache = <<>>
    /\ \A i \in 1..Len(lc.all_broken) :
         IsExternal(lc.all_broken[i].href) =>
             /\ lc.all_broken[i].href \in DOMAIN lc.log
             /\ lc.all_broken[i].status =
                    FetchResult(lc.log[lc.all_broken[i].href].head, lc.log[lc.all_broken[i].href].get)

\* a later call has returned with a failure for a URL it fetched itself
C8_Witness ==
    /\ lc.again
    /\ lc.pc = "returned"
    /\ \E i \in 1..Len(lc.all_broken) :
         /\ IsExternal(lc.all_broken[i].href)
         /\ lc.log[lc.all_broken[i].href].heads = 1

\* the status _fetch_external_link evaluates when both requests it made returned a response
FinalStatus(l) == IF l.gets >= 1 THEN l.get.status ELSE l.head.status

\* no request of the fetch raised
NoTransportFailure(l) == l.head.exc = "" /\ (l.gets >= 1 => l.get.exc = "")

\* C9: GET is issued exactly when the HEAD status is >= 400; the final status
\* is the GET status when GET was issued, else the HEAD status; the link is OK
\* exactly when the final status is < 400, else the message names that status
C9_HeadGetStatusMapping ==
    \A url \in DOMAIN lc.log :
        LET l == lc.log[url]
            r == lc.cache[url]
        IN  /\ (l.gets >= 1) <=> (l.head.exc = "" /\ l.head.status >= 400)
            /\ NoTransportFailure(l) =>
                 /\ r.ok <=> FinalStatus(l) < 400
                 /\ ~r.ok => (r.kind = "Erro HTTP" /\ r.status = FinalStatus(l))

\* one URL answered HEAD 404 and GET 404 and is reported with 404, another
\* answered HEAD 400 and GET 200 and is OK
C9_Witness ==
    /\ lc.pc = "returned"
    /\ \E u1, u2 \in DOMAIN lc.log :
         /\ lc.log[u1].head = Response(404) /\ lc.log[u1].get = Response(404)
         /\ ~lc.cache[u1].ok /\ lc.cache[u1].status = 404
         /\ IssuesFor(u1) # {}
         /\ lc.log[u2].head = Response(400) /\ lc.log[u2].get = Response(200)
         /\ lc.cache[u2].ok
         /\ IssuesFor(u2) = {}

\* the reason reported for each kind of transport failure
ReasonOf(exc) ==
    CASE exc = "Timeout"          -> "Timeout (excedeu tempo limite)"
      [] exc = "TooManyRedirects" -> "Muitos redirecionamentos"
      [] exc = "ConnectionError"  -> "Erro de requisicao"
      [] OTHER                    -> "Erro inesperado ao verificar"

\* the exception the fetch of a URL ended with, "" when there was none
FailureOf(l) ==
    IF l.head.exc # "" THEN l.head.exc
    ELSE IF l.gets >= 1 /\ l.get.exc # "" THEN l.get.exc
    ELSE ""

\* C10: a transport failure of the HEAD request or of the GET fallback gives a
\* failure result with the reason of its kind, stored in the cache, and the
\* step that met it goes on to the next link of the same file
C10_TransportFailureIsAResult ==
    [][ (lc.pc = "run" /\ lc.links # <<>> /\ lc'.log # lc.log) =>
           LET url == Head(lc.links).href
               exc == FailureOf(lc'.log[url])
           IN  exc # "" =>
                 /\ url \in DOMAIN lc'.cache
                 /\ ~lc'.cache[url].ok
                 /\ lc'.cache[url].kind = ReasonOf(exc)
                 /\ lc'.pc = "run" /\ lc'.cur = lc.cur /\ lc'.links = Tail(lc.links)
                 /\ lc'.broken = Append(lc.broken, Issue(lc.cur, Head(lc.links), lc'.cache[url]))
                 /\ lc'.all_broken = lc.all_broken ]_vars

\* a HEAD timeout, a GET with too many redirects: both reported, and the link
\* after the failed one was checked
C10_Witness ==
    /\ lc.pc = "returned"
    /\ \E u1, u2 \in DOMAIN lc.log :
         /\ lc.log[u1].head.exc = "Timeout"
         /\ lc.log[u2].gets = 1 /\ lc.log[u2].get.exc = "TooManyRedirects"
         /\ \E i, j \in 1..Len(lc.all_broken) :
              /\ i < j
              /\ lc.all_broken[i].source = lc.all_broken[j].source
              /\ lc.all_broken[i].href = u1 /\ lc.all_broken[i].status.kind = "Timeout (excedeu tempo limite)"
              /\ lc.all_broken[j].href = u2 /\ lc.all_broken[j].status.kind = "Muitos redirecionamentos"

\* all entries recorded so far in the current call
AllIssues == Range(lc.all_broken) \cup Range(lc.broken)

\* C11: an href that is empty or starts with mailto:, tel:, data: or
\* javascript:, and with check_external false an href with scheme and host,
\* gives no entry, no request and no cache entry; with check_external false
\* no request is made at all and the cache is empty, also at the return
C11_SkippedLinkLeavesNoTrace ==
    /\ \A i \in AllIssues :
         /\ ~IsBlank(i.href)
         /\ i.href.scheme \notin {"mailto", "tel", "data", "javascript"}
         /\ ~lc.check_external => ~(i.href.scheme # "" /\ i.href.netloc # "")
    /\ \A url \in DOMAIN lc.log \cup DOMAIN lc.cache :
         /\ ~IsBlank(url)
         /\ url.scheme \notin {"mailto", "tel", "data", "javascript"}
    /\ ~lc.check_external => (lc.log = <<>> /\ lc.cache = <<>>)

\* a call with check_external false has returned from a site with a readable
\* page carrying an external link and a data: image
C11_Witness ==
    /\ lc.pc = "returned"
    /\ ~lc.check_external
    /\ lc.cache = <<>>
    /\ lc.all_broken = <<>>
    /\ \E f \in HtmlRel :
         /\ site[f].readable
         /\ {hExt1, hData} \subseteq { site[f].tags[k].href : k \in 1..Len(site[f].tags) }

\* the file an internal href of a page stands for: the resolved path, or
\* index.html in it when the path is a directory
TargetFile(h, f) ==
    LET t == IF StartsWithHash(h) THEN SiteRootAbs \o f ELSE resolve_internal_link_path(h, f)
    IN  IF isdir(t) THEN Append(t, "index.html") ELSE t

\* the target file exists and holds the anchor the href names
TargetAndAnchorExist(h, f) ==
    /\ isfile(TargetFile(h, f))
    /\ h.frag # "" => h.frag \in IdsOfFile(TargetFile(h, f))

\* the entries of the returned list for one href of one page
EntriesFor(f, h) == { i \in Range(lc.all_broken) : i.source = f /\ i.href = h }

\* the internal hrefs of a readable page
InternalHrefs(f) ==
    { site[f].tags[k].href : k \in 1..Len(site[f].tags) } \ { h \in { site[f].tags[k].href : k \in 1..Len(site[f].tags) } : SkippedHref(h) \/ IsExternal(h) }

\* C12 as stated: an internal link is OK exactly when its target file exists
\* (index.html for a directory) and holds the anchor of a non-empty fragment
C12_OkIffTargetAndAnchorExist ==
    lc.pc = "returned" =>
        \A f \in HtmlRel : site[f].readable =>
            \A h \in InternalHrefs(f) :
                (EntriesFor(f, h) = {}) <=> TargetAndAnchorExist(h, f)

\* C12 amended: an internal link is OK exactly when its resolved path starts
\* with the site root, its target file exists (index.html for a directory)
\* and the file holds the anchor of a non-empty fragment; a path that is
\* neither file nor directory gives 'file not found', an anchor missing from
\* a readable target gives 'anchor not found'
C12_OkIffInsideRootTargetAndAnchorExist ==
    lc.pc = "returned" =>
        \A f \in HtmlRel : site[f].readable =>
            \A h \in InternalHrefs(f) :
                LET inside == PathStartsWith(TargetFile(h, f), SiteRootAbs)
                IN  /\ (EntriesFor(f, h) = {}) <=> (inside /\ TargetAndAnchorExist(h, f))
                    /\ (inside /\ ~isfile(TargetFile(h, f)) /\ ~isdir(TargetFile(h, f))
                          /\ TargetFile(h, f)[Len(TargetFile(h, f))] # "index.html") =>
                          \A i \in EntriesFor(f, h) : i.status.kind = "Arquivo de destino nao encontrado"
                    /\ (inside /\ isfile(TargetFile(h, f)) /\ ~FileRaises(TargetFile(h, f))
                          /\ ~TargetAndAnchorExist(h, f)) =>
                          \A i \in EntriesFor(f, h) : i.status.kind = "Ancora nao encontrada"

\* a page whose '#top' has no anchor in it is reported with 'anchor not
\* found', while its link 'a.html#top' to a page with that anchor is not reported
C12_Witness ==
    /\ lc.pc = "returned"
    /\ \E f \in HtmlRel :
         /\ site[f].readable
         /\ {hFragTop, hATop} \subseteq InternalHrefs(f)
         /\ EntriesFor(f, hATop) = {}
         /\ \E i \in EntriesFor(f, hFragTop) : i.status.kind = "Ancora nao encontrada"

\* an href that the resolvers treat as a path
IsPathHref(h) == ~UrlparseRaises(h) /\ h.scheme = "" /\ h.netloc = "" /\ h.segs # <<>>

\* what the resolver of each script returns for an href of a page
ResolvedBy(h, f) ==
    << resolve_internal_link_target_FO(h, f),
       resolve_internal_link_target_SO(h, f),
       resolve_internal_link_target_LO(h, f) >>

\* the hrefs of the <a> tags of a page
AnchorHrefs(f) == { site[f].tags[k].href : k \in { j \in 1..Len(site[f].tags) : site[f].tags[j].tag = "a" } }

\* C13: in each of the three resolvers an href to a directory with index.html
\* resolves to <dir>/index.html and an href to a directory without
\* index.html resolves to no target; the orphan finder marks only pages as linked
C13_DirectoryFallback ==
    fo.pc = "done" =>
        /\ fo.linked \subseteq fo.all
        /\ \A f \in HtmlRel : site[f].readable =>
              \A h \in AnchorHrefs(f) :
                  LET d == TargetAbsPath(h, f)
                  IN  (IsPathHref(h) /\ isdir(d)) =>
                        \A i \in 1..3 :
                            IF isfile(Append(d, "index.html"))
                            THEN ResolvedBy(h, f)[i] = Target(relpath(Append(d, "index.html"), SiteRootAbs))
                            ELSE ~ResolvedBy(h, f)[i].found

\* an href of a page that leads to a directory without index.html
DirWithoutIndex(h, f) ==
    /\ IsPathHref(h)
    /\ isdir(TargetAbsPath(h, f))
    /\ ~isfile(Append(TargetAbsPath(h, f), "index.html"))

\* the tags of a page without its links to directories lacking index.html
WithoutDirLinks(f) ==
    LET Keep(t) == ~DirWithoutIndex(t.href, f)
    IN  SelectSeq(site[f].tags, Keep)

\* the pages that the tags of the readable pages, the links to directories
\* lacking index.html left out, lead to
LinkedWithoutDirLinks ==
    UNION { LinkedByTagsFO(WithoutDirLinks(f), f, GlobHtml) : f \in { g \in HtmlRel : site[g].readable } }

\* C14: for a link to a directory lacking index.html the link checker
\* reports one entry per occurrence of the link, with the reason of that
\* case, while the orphan finder returns the orphans it returns without the
\* link, the orphan suggester loads the page and marks pages only for other
\* links, and the opportunity finder builds the graph it builds without the link
C14_DirectoryLinkPolicies ==
    lc.pc = "returned" =>
        /\ \A f \in HtmlRel : site[f].readable =>
              /\ \A h \in AnchorHrefs(f) : DirWithoutIndex(h, f) =>
                    /\ Cardinality({ i \in 1..Len(lc.all_broken) :
                                       lc.all_broken[i].source = f /\ lc.all_broken[i].href = h })
                         = Cardinality({ k \in 1..Len(site[f].tags) : site[f].tags[k].href = h })
                    /\ \A i \in EntriesFor(f, h) : i.status.kind = "Link de diretorio nao possui index.html"
              /\ so.page_data[f] = SOPageData(site[f])
              /\ lo.outgoing[f] = LinkedByTagsLO(WithoutDirLinks(f), f, GlobHtml)
        /\ fo.result = SortedList(GlobHtml \ LinkedWithoutDirLinks)
        /\ so.linked \subseteq LinkedWithoutDirLinks

\* the four scripts have run on a site where a page links to the directory
\* empty/ and to a page; the checker reports the directory link
C14_Witness ==
    /\ lc.pc = "returned"
    /\ fo.pc = "done" /\ so.pc = "done" /\ lo.pc = "done"
    /\ \E f \in HtmlRel :
         /\ site[f].readable
         /\ {hEmptyDir, hA} \subseteq AnchorHrefs(f)
         /\ EntriesFor(f, hEmptyDir) # {}
         /\ fo.linked # {}

\* the path is the directory or lies in it
IsUnder(p, dir) == Len(p) >= Len(dir) /\ SubSeq(p, 1, Len(dir)) = dir

\* C15: an internal href whose normalized target lies outside the site root
\* is reported by the link checker, whether or not the file exists, and none
\* of the three resolvers returns a target for it
C15_OutsideRootRejected ==
    lc.pc = "returned" =>
        \A f \in HtmlRel : site[f].readable =>
            \A h \in AnchorHrefs(f) :
                (IsPathHref(h) /\ ~IsUnder(TargetAbsPath(h, f), SiteRootAbs)) =>
                    /\ EntriesFor(f, h) # {}
                    /\ \A i \in 1..3 : ~ResolvedBy(h, f)[i].found

\* the entries of the returned list that name the file as their source, in order
EntriesOfFile(f) ==
    LET FromF(i) == i.source = f
    IN  SelectSeq(lc.all_broken, FromF)

RECURSIVE EntriesOfTags(_, _)
\* the entries that the links of a file give when each one is checked
EntriesOfTags(tags, f) ==
    IF tags = <<>> THEN <<>>
    ELSE LET r == IF SkippedHref(Head(tags).href) THEN SkippedResult
                  ELSE CheckInternal(Head(tags).href, f)
         IN  (IF r.ok THEN <<>> ELSE << Issue(f, Head(tags), r) >>) \o EntriesOfTags(Tail(tags), f)

\* some href of the page makes urlparse raise
HasRaisingLink(f) == \E k \in 1..Len(site[f].tags) : UrlparseRaises(site[f].tags[k].href)

\* C16: a file that cannot be read or parsed has exactly one entry in the
\* returned list, the synthetic one naming the file, and every file whose
\* links can all be checked has the entries of all its broken links,
\* wherever the failing file comes in the enumeration
C16_FileFailureIsOneEntry ==
    lc.pc = "returned" =>
        \A f \in HtmlRel :
            IF ~site[f].readable
            THEN EntriesOfFile(f) = << FileErrorIssue(f) >>
            ELSE ~HasRaisingLink(f) =>
                   EntriesOfFile(f) = EntriesOfTags(TagsToCheck(site[f].tags, 1), f)

\* the file that cannot be read came first, and the broken link of a file
\* read after it is in the returned list
C16_Witness ==
    /\ lc.pc = "returned"
    /\ Len(lc.all_broken) >= 2
    /\ lc.all_broken[1].tag = "N/A"
    /\ ~site[lc.all_broken[1].source].readable
    /\ lc.all_broken[2].tag # "N/A"
    /\ lc.all_broken[2].source # lc.all_broken[1].source

\* C17: every broken link of a readable file whose check does not raise is
\* in the returned list, also when the check of another link of the file raised
C17_LinkErrorKeepsOtherLinks ==
    lc.pc = "returned" =>
        \A f \in HtmlRel : site[f].readable =>
            \A k \in 1..Len(site[f].tags) :
                LET h == site[f].tags[k].href
                IN  (~UrlparseRaises(h) /\ ~SkippedHref(h) /\ ~IsExternal(h) /\ ~CheckInternal(h, f).ok)
                        => EntriesFor(f, h) # {}

\* both loaders have a record for every file, and the record of every file
\* that can be read is the one made from its content
AllFilesLoaded ==
    /\ DOMAIN lo.page_data = GlobHtml
    /\ DOMAIN so.page_data = GlobHtml
    /\ \A f \in HtmlRel : site[f].readable =>
          /\ lo.page_data[f] = LOPageData(f, site[f])
          /\ so.page_data[f] = SOPageData(site[f])

ResolverTakesAsPath(h) ==
    ~(h.scheme # "" \/ h.netloc # "" \/ NonNavPrefix(h) \/ StartsWithHash(h) \/ IsBlank(h))

\* _check_one_link goes on to resolve the href as a path of the site
CheckerTakesAsPath(h) == ~SkippedHref(h) /\ ~IsExternal(h) /\ ~StartsWithHash(h)

\* C19: an href with scheme and host is external: no resolver returns a
\* target for it and the checker does not look for it in the site; an href
\* that is empty or starts with mailto:, tel: or javascript: gives no target
\* and no entry; the checker resolves an href as a path of the site exactly
\* when the resolvers do, so it reports a missing file only for such an href
C19_SameClassification ==
    lc.pc = "returned" =>
        \A f \in HtmlRel : site[f].readable =>
            \A h \in AnchorHrefs(f) :
                /\ (h.scheme # "" /\ h.netloc # "") =>
                      /\ \A i \in 1..3 : ~ResolvedBy(h, f)[i].found
                      /\ ~CheckerTakesAsPath(h)
                /\ (IsBlank(h) \/ h.scheme \in {"mailto", "tel", "javascript"}) =>
                      /\ \A i \in 1..3 : ~ResolvedBy(h, f)[i].found
                      /\ EntriesFor(f, h) = {}
                /\ CheckerTakesAsPath(h) <=> ResolverTakesAsPath(h)
                /\ EntriesFor(f, h) # {} => ResolverTakesAsPath(h)

\* the path argument is missing or is not what the script takes
InvalidArgument ==
    \/ cli.arg = "missing"
    \/ cli.script = "spell_checker" /\ cli.arg \notin {"file", "content_file", "directory"}
    \/ cli.script # "spell_checker" /\ cli.arg # "directory"

\* C20: every script exits with status 1 and a printed error when its path
\* argument is missing or invalid, and with status 0 in every other case,
\* whether or not issues were found
C20_ExitStatus ==
    cli.pc = "exited" =>
        IF InvalidArgument
        THEN cli.status = 1 /\ cli.printed = "error"
        ELSE cli.status = 0


\* the home page of the sitemap: index.html directly in public_dir
SitemapHomePage == <<public_dir, "index.html">>

\* the entries the sitemap has for file f
SitemapEntriesOf(f) == { i \in 1..Len(sm.entries) : sm.entries[i].file = f }

\* C21: in the written sitemap every .html file of the tree has exactly one
\* entry; the entry of the home page has base_url as its location and priority
\* 1.0; every other entry has priority 0.8 and a location different from
\* base_url; no location ends with a slash.
C21_SitemapEntries ==
    sm.pc = "written" =>
        /\ \A f \in sm.tree :
             Cardinality(SitemapEntriesOf(f)) = IF IsHtmlName(f[Len(f)]) THEN 1 ELSE 0
        /\ \A i \in 1..Len(sm.entries) :
             LET e == sm.entries[i]
             IN  /\ e.file = SitemapHomePage => e.loc = <<>> /\ e.priority = "1.0"
                 /\ e.file # SitemapHomePage => e.loc # <<>> /\ e.priority = "0.8"
                 /\ ~(e.loc # <<>> /\ e.loc[Len(e.loc)] = "")


\* the turns of the audit loop that checked file f
AuditsOf(f) == { i \in 1..Len(md.audited) : md.audited[i].file = f }

\* the issue list that the check of file f returned
AuditedIssues(f) == md.audited[CHOOSE i \in AuditsOf(f) : TRUE].issues

\* C22: no exception leaves check_metadata_for_file: the audit is never
\* aborted, and when it returns every file found has been checked once; the
\* check of a missing or unreadable file returned a list with one issue; a
\* file is a key of the returned mapping exactly when the list returned for
\* it is not empty, and the mapping holds that list.
C22_AuditSurvivesEveryFile ==
    /\ ~md.escaped
    /\ md.pc # "aborted"
    /\ md.pc = "returned" =>
         /\ \A f \in DOMAIN md.pages : Cardinality(AuditsOf(f)) = 1
         /\ \A f \in DOMAIN md.pages :
              /\ md.pages[f].kind \in {"missing", "unreadable"} => Len(AuditedIssues(f)) = 1
              /\ (f \in DOMAIN md.all_issues_by_file) <=> (AuditedIssues(f) # <<>>)
              /\ f \in DOMAIN md.all_issues_by_file => md.all_issues_by_file[f] = AuditedIssues(f)
         /\ DOMAIN md.all_issues_by_file \subseteq DOMAIN md.pages

\* an audit has returned in which the first file checked was missing, a later
\* file was unreadable, and a page without issues is no key of the mapping
C22_Witness ==
    /\ md.pc = "returned"
    /\ Len(md.audited) = 3
    /\ md.pages[md.audited[1].file].kind = "missing"
    /\ md.pages[md.audited[2].file].kind = "unreadable"
    /\ md.pages[md.audited[3].file].kind = "html"
    /\ md.audited[3].issues = <<>>
    /\ md.audited[3].file \notin DOMAIN md.all_issues_by_file
    /\ md.audited[1].file \in DOMAIN md.all_issues_by_file


\* C23: in every suggestion list of suggest_internal_linking_opportunities two
\* suggestions with the same matching_terms_count stand in the order in which
\* their sources were scanned, the ascending order of the paths, and no source
\* occurs twice; with the ranking by count this fixes the order of the list,
\* whatever the order in which glob listed the files.
C23_TiesKeepPathOrder ==
    lo.pc = "done" =>
        \A t \in DOMAIN lo.opportunities :
            LET l == lo.opportunities[t]
            IN  \A i, j \in 1..Len(l) :
                    i < j =>
                        /\ l[i].source_page # l[j].source_page
                        /\ l[i].matching_terms_count = l[j].matching_terms_count
                               => Rank(l[i].source_page) < Rank(l[j].source_page)

\* a target has two suggestions with the same count, and glob listed the
\* files in an order that is not the ascending one
C23_Witness ==
    /\ lo.pc = "done"
    /\ \E t \in DOMAIN lo.opportunities :
         /\ Len(lo.opportunities[t]) = 2
         /\ lo.opportunities[t][1].matching_terms_count = lo.opportunities[t][2].matching_terms_count


\* the significant words of a sequence of words: lowercased, of three or more
\* letters, no stopwords
SignificantWords(ws) ==
    { Lower(ws[i]) : i \in { k \in 1..Len(ws) : AtLeast3(ws[k]) /\ Lower(ws[k]) \notin PORTUGUESE_STOPWORDS } }

\* the significant meta keywords of a page
SignificantKeywords(pg) ==
    { Lower(k) : k \in { x \in pg.keywords : AtLeast3(x) /\ Lower(x) \notin PORTUGUESE_STOPWORDS } }

\* C24 as stated: a page whose <title> has no significant word, or that has no
\* <title>, and that has no meta keywords is no key of the mapping of
\* suggest_internal_linking_opportunities; every other page is a key.
C24_PageWithoutTitleWordsSkipped ==
    lo.pc = "done" =>
        \A t \in HtmlRel :
            (t \in DOMAIN lo.opportunities) <=>
                (SignificantWords(site[t].title.words) \cup SignificantKeywords(site[t])) # {}

\* C24, amended: the title of a page without <title>, and of a file that
\* could not be read, is the base name of the file; a page is a key of the
\* mapping exactly when that title has a significant word or the page has a
\* significant meta keyword.
C24_KeyIffTitleOrBasenameWords ==
    lo.pc = "done" =>
        \A t \in HtmlRel :
            LET title == IF site[t].readable /\ site[t].title.has
                         THEN site[t].title.words ELSE BasenameWords(basename(t))
            IN  (t \in DOMAIN lo.opportunities) <=>
                    (SignificantWords(title) \cup SignificantKeywords(site[t])) # {}

\* one page with a <title> of stopwords only and no keywords is skipped, one
\* page without <title> and keywords is a key, and one key has an empty list
C24_Witness ==
    /\ lo.pc = "done"
    /\ \E t \in HtmlRel :
         /\ site[t].readable /\ site[t].title.has /\ site[t].keywords = {}
         /\ t \notin DOMAIN lo.opportunities
    /\ \E t \in HtmlRel :
         /\ site[t].readable /\ ~site[t].title.has /\ site[t].keywords = {}
         /\ t \in DOMAIN lo.opportunities
    /\ \E t \in DOMAIN lo.opportunities : lo.opportunities[t] = <<>>


\* C25: the snippet copy of a loaded page is the text of the page in its
\* original letter case and with its stopwords, the matching copy is
\* lowercased and without stopwords, and the context snippet of a suggestion
\* shows the text of the source in its original case.
C25_SnippetKeepsOriginalCase ==
    lo.pc = "done" =>
        /\ \A f \in HtmlRel :
             site[f].readable =>
                 /\ lo.page_data[f].raw_text_content_for_snippet = site[f].text
                 /\ \A i \in 1..Len(lo.page_data[f].text_content_for_matching) :
                        LET w == lo.page_data[f].text_content_for_matching[i]
                        IN  w = Lower(w) /\ w \notin PORTUGUESE_STOPWORDS
        /\ \A t \in DOMAIN lo.opportunities : \A i \in 1..Len(lo.opportunities[t]) :
             LET s == lo.opportunities[t][i]
             IN  s.context_snippet # <<>> => s.context_snippet = site[s.source_page].text


\* C26: the link checker resolves a path href as the resolver of the link
\* graph does, percent-decoding included: a link of a page has no entry in
\* the report exactly when the resolver resolves its href to a page of the site.
C26_CheckerDecodesLikeResolver ==
    lc.pc = "returned" =>
        \A f \in HtmlRel : site[f].readable =>
            \A h \in AnchorHrefs(f) :
                IsPathHref(h) =>
                    ((EntriesFor(f, h) = {}) <=>
                        LET r == resolve_internal_link_target_FO(h, f)
                        IN  r.found /\ r.path \in GlobHtml)


\* the sources of the entries of the report form one block per file
OneBlockPerFile(l) ==
    \A i, j, k \in 1..Len(l) : (i < j /\ j < k /\ l[i].source = l[k].source) => l[j].source = l[i].source

\* a step of the loop of check_website_links: the files still to visit only
\* get fewer; a file that is taken was still to visit and is not any more;
\* the report grows only when the visit of a file ends, by the issues of that
\* file, and nothing of it is ever removed
LoopStepVisitsOnce ==
    lc.pc = "run" =>
        /\ lc'.todo \subseteq lc.todo
        /\ (lc.cur = NoFile /\ lc'.cur # NoFile) => (lc'.cur \in lc.todo /\ lc'.todo = lc.todo \ {lc'.cur})
        /\ (lc.cur # NoFile /\ lc'.cur # NoFile) =>
               (lc'.cur = lc.cur /\ lc'.todo = lc.todo /\ lc'.all_broken = lc.all_broken)
        /\ (lc.cur # NoFile /\ lc'.cur = NoFile) =>
               /\ lc'.todo = lc.todo
               /\ \E issues \in {lc.broken, <<FileErrorIssue(lc.cur)>>} : lc'.all_broken = lc.all_broken \o issues
        /\ (lc.cur = NoFile /\ lc'.cur = NoFile) =>
               \/ lc'.todo = lc.todo /\ lc'.all_broken = lc.all_broken
               \/ \E f \in lc.todo : /\ lc'.todo = lc.todo \ {f}
                                     /\ lc'.all_broken = Append(lc.all_broken, FileErrorIssue(f))

\* C27: every call of check_website_links returns; the call starts with all
\* HTML files to visit, each step of the loop visits a file at most once and
\* appends the issues of a file when its visit ends, and at the return no
\* file is left and the report has one block of entries per file.
C27_TerminatesWithCompleteReport ==
    /\ (lc.pc = "run") ~> (lc.pc = "returned")
    /\ [][LoopStepVisitsOnce]_vars
    /\ [][lc.pc = "idle" /\ lc'.pc = "run" => lc'.todo = GlobHtml /\ lc'.all_broken = <<>>]_vars
    /\ [](lc.pc = "returned" =>
             /\ lc.todo = {}
             /\ lc.cur = NoFile
             /\ OneBlockPerFile(lc.all_broken)
             /\ \A f \in GlobHtml : ~site[f].readable => Cardinality(EntriesFor(f, hNA)) = 1)

\* a call has returned after a request that timed out, with entries of two files
C27_Witness ==
    /\ lc.pc = "returned"
    /\ \E url \in DOMAIN lc.log : FailureOf(lc.log[url]) = "Timeout"
    /\ Cardinality({ lc.all_broken[i].source : i \in 1..Len(lc.all_broken) }) >= 2


\* C28: in the suggestions of suggest_orphan_links.py no suggested source of a
\* reported orphan contains an internal anchor link to that orphan, and no
\* suggested source is the orphan itself or another reported orphan.
C28_SuggestedSourceDoesNotLinkToOrphan ==
    so.pc = "done" =>
        \A t \in DOMAIN so.suggestions : \A i \in 1..Len(so.suggestions[t]) :
            LET s == so.suggestions[t][i].link_from_page
            IN  /\ t \in Range(so.orphans)
                /\ s # t
                /\ s \notin Range(so.orphans)
                /\ ~HasAnchorToSO(s, t)


\* the positions of the report with an entry of file f for the href h
EntryPositions(f, h) == { i \in 1..Len(lc.all_broken) : lc.all_broken[i].source = f /\ lc.all_broken[i].href = h }

\* the checked tags of file f that carry the href h
Occurrences(f, h) ==
    LET tags == TagsToCheck(site[f].tags, 1)
    IN  { k \in 1..Len(tags) : tags[k].href = h }

\* C29: every entry of the cache is for a URL with scheme and host that was
\* fetched in this call, and while the call runs an entry is never changed or
\* removed; every entry of the report for an external URL carries the cached
\* verdict of the URL, and in the returned report each checked occurrence of
\* the URL has an entry when the verdict is a failure and none has one when
\* it is OK (files in which the check of a link raises keep no entries).
C29_OneVerdictPerUrl ==
    /\ [](\A url \in DOMAIN lc.cache :
              /\ IsExternal(url)
              /\ url \in DOMAIN lc.log
              /\ lc.log[url].heads = 1)
    /\ [][lc.pc = "run" => \A url \in DOMAIN lc.cache :
                               url \in DOMAIN lc'.cache /\ lc'.cache[url] = lc.cache[url]]_vars
    /\ [](\A i \in 1..Len(lc.all_broken) :
              IsExternal(lc.all_broken[i].href) =>
                  /\ lc.all_broken[i].href \in DOMAIN lc.cache
                  /\ lc.all_broken[i].status = lc.cache[lc.all_broken[i].href]
                  /\ ~lc.all_broken[i].status.ok)
    /\ [](lc.pc = "returned" /\ lc.check_external =>
              \A f \in HtmlRel : (site[f].readable /\ ~HasRaisingLink(f)) =>
                  \A h \in { t.href : t \in Range(TagsToCheck(site[f].tags, 1)) } :
                      IsExternal(h) =>
                          /\ h \in DOMAIN lc.cache
                          /\ Cardinality(EntryPositions(f, h)) =
                                 IF lc.cache[h].ok THEN 0 ELSE Cardinality(Occurrences(f, h)))

\* a call has returned in which one URL with a failure verdict occurs in two
\* tags of one page and has two entries, and a URL with an OK verdict has none
C29_Witness ==
    /\ lc.pc = "returned"
    /\ \E f \in HtmlRel : \E h \in DOMAIN lc.cache :
         /\ ~lc.cache[h].ok
         /\ Cardinality(Occurrences(f, h)) = 2
         /\ Cardinality(EntryPositions(f, h)) = 2


\* C30: the list returned by find_orphaned_pages_in_site is the sorted list
\* of the HTML files that are in no outgoing set of the outgoing_link_map
\* returned by get_site_data_and_link_map for the same site.
C30_OrphansAreUnlinkedInGraph ==
    (fo.pc = "done" /\ lo.pc \in {"built", "done"}) =>
        fo.result = SortedList(GlobHtml \ UNION { lo.outgoing[p] : p \in DOMAIN lo.outgoing })

\* both scripts have run on a site where a page links to the directory docs,
\* another link goes to a directory without index.html, which only the
\* resolver of the orphan finder resolves, and some page is an orphan
C30_Witness ==
    /\ fo.pc = "done"
    /\ lo.pc = "built"
    /\ fo.result # <<>>
    /\ \E p \in DOMAIN lo.outgoing : <<"docs", "index.html">> \in lo.outgoing[p]
    /\ <<"docs", "index.html">> \notin Range(fo.result)
    /\ \E q \in HtmlRel : \E k \in 1..Len(site[q].tags) :
         /\ site[q].readable
         /\ site[q].tags[k].href = hEmptyDir
         /\ resolve_internal_link_target_FO(hEmptyDir, q).found
         /\ ~resolve_internal_link_target_LO(hEmptyDir, q).found

\*--CLAIMS--

====
